---------------------------- MODULE Spec2Model ----------------------------
(***************************************************************************)
(* Model of the kachaka-sdk-toolkit connection and command runtime.        *)
(*                                                                         *)
(*   Spec        RobotController: the command executor, the movement       *)
(*               wrappers and the shelf monitor (kachaka_core/controller)  *)
(*   SpecPool    KachakaConnection pool and lazy client initialisation     *)
(*               (kachaka_core/connection), several caller threads         *)
(*   SpecHealth  KachakaConnection health prober, _set_state and listener  *)
(*                                                                         *)
(* Time is counted in ticks of 0.2 s (the registration-wait cadence).      *)
(***************************************************************************)
EXTENDS Integers, Sequences, FiniteSets, TLC

VARIABLES
    \* ---- RobotController._execute_command: locals of the running call
    pc,                 \* position of the caller thread inside the executor
    action,             \* action label of the running movement wrapper
    target,             \* target label handed to the executor
    timeout,            \* requested timeout (ticks)
    now,                \* time.perf_counter() relative to t0
    deadline,           \* deadline = perf_counter() + timeout
    command_id,         \* start_resp.command_id
    reg_deadline,       \* min(perf_counter() + 5.0, deadline)
    last_err,           \* _call_with_retry: last_err
    state_resp,         \* GetCommandState response of the running iteration
    result_resp,        \* GetLastCommandResult response of this iteration
    result,             \* the dict returned by the running call
    start_resp,         \* the StartCommand response, once there is one
    catalog,            \* what get_robot_error_code() gave this call
    \* ---- RobotController fields
    monitoring_shelf,   \* self._monitoring_shelf
    shelf_dropped,      \* self._state.shelf_dropped
    moving_shelf_id,    \* self._state.moving_shelf_id
    on_shelf_dropped,   \* whether an on_shelf_dropped listener is installed
    poll_count, poll_success_count, poll_failure_count,   \* ControllerMetrics
    poll_rtt_list,      \* ControllerMetrics.poll_rtt_list (round trips in ticks)
    \* ---- observations of the polls since the last reset_metrics()
    mainIssued,         \* GetCommandState calls issued by the main loop
    mainOk,             \* ... of which answered
    mainFailed,         \* ... of which raised
    regPolled,          \* the running call polled in its registration wait
    \* ---- history of the running call (observations, not program state)
    calls,              \* number of commands invoked so far
    shelf_id,           \* resolved target shelf id of the running move_shelf
    rpcs,               \* names of the RPCs issued by the running call
    accepted,           \* StartCommand answered with success
    sawInactive,        \* a main-loop poll reported completion/displacement
    sawStale,           \* a last-result read carried another command's id
    firstRead,          \* first successful moving-shelf read of the call
    dropLog,            \* previous ids at which a drop was detected
    listenerCalls,      \* arguments delivered to on_shelf_dropped
    \* ---- KachakaConnection: the pool and the pooled Connection objects
    pool,               \* cls._pool: canonical target -> Connection (0: none)
    conns,              \* the Connection objects ever constructed, in order
    tpc,                \* position of each caller thread
    op,                 \* the operation each caller thread is running
    handle,             \* the Connection each caller thread works on
    \* ---- history of the pool
    opsDone,            \* operations begun by each caller thread
    removes,            \* remove / clear_pool calls made so far
    getReturns,         \* <<target, Connection>> of every get() that returned
    returns,            \* what each completed get / client access handed out
    rpcStubs,           \* the stub kind each ping RPC was sent through
    \* ---- KachakaConnection: health monitoring
    conn_state,         \* self._state
    on_state_change,    \* self._on_state_change (the listener, or None)
    monitor_stop,       \* self._monitor_stop (the Event's flag)
    monitor_thread,     \* self._monitor_thread (0: None)
    ppc,                \* position of each prober thread
    pnew,               \* new_state each prober hands to _set_state
    spc,                \* position of the thread calling start/stop_monitoring
    \* ---- history of the health machine
    pings,              \* pings begun so far
    starts,             \* probers started so far
    stops,              \* stop_monitoring calls that set the stop event
    joinTimeouts,       \* joins that returned with the prober still running
    silentStarts,       \* probers started without a listener
    changes,            \* the values the state was changed to, in order
    delivered,          \* the values handed to the listener, in order
    \* ---- KachakaConnection.wait_for_state: one waiting caller
    wpc,                \* position of the caller inside wait_for_state
    wtarget,            \* target_state
    wtimeout,           \* timeout (ticks; NoTimeout: None)
    wclock,             \* time since the call began (ticks)
    wnotified,          \* notify_all reached the waiter since it last slept
    wresult,            \* the value wait_for_state returned
    \* ---- history of the wait
    waits,              \* wait_for_state calls made so far
    wAtCall,            \* the health state when the call began
    wAtReturn,          \* the health state when the call returned
    wblocked,           \* the call went to sleep on the condition
    \* ---- with_retry: the decorator's arguments and the wrapper's locals
    rpc,                \* position of the caller inside the wrapper
    max_attempts, base_delay, max_delay,
    retry_deadline,     \* deadline (ticks; NoDeadline: None)
    attempt,            \* attempt
    abs_deadline,       \* abs_deadline (NoDeadline: None)
    last_error,         \* last_error
    delay,              \* delay of the sleep about to be made
    rnow,               \* time.perf_counter()
    rresult,            \* what the wrapper returned
    \* ---- history of the wrapped call
    outcomes,           \* what each invocation of the callable did, in order
    callTimes,          \* when each invocation began and ended
    sleepLog,           \* the sleeps made: after which invocation, from, for
    \* ---- RobotController: the state object, its lock and the sampler
    robot_state,        \* self._state: pose, is_command_running, last_updated,
                        \* battery_pct (the shelf fields are the two above)
    state_lock,         \* who holds self._state_lock
    stop_event,         \* self._stop_event (the Event's flag)
    spos,               \* position of the sampler thread in _state_loop
    s_now,              \* _state_loop: now
    pose,               \* _state_loop: pose
    is_running,         \* _state_loop: is_running
    last_slow,          \* _state_loop: last_slow
    stime,              \* time.time()
    snaps,              \* the objects handed out by the state property
    \* ---- history of the sampler and the readers
    iter,               \* the running iteration: state before, what failed
    lastBatteryOk,      \* time of the iteration of the last good battery read
    taken,              \* the live state at the moment of each snapshot
    mutated,            \* the snapshots a reader has written to
    caller,             \* where the thread calling start() and stop() is
    \* ---- KachakaConnection: the resolver of one Connection and its callers
    resolver_ready,     \* self._resolver_ready
    shelves,            \* self._shelves: name -> id
    shelf_ids,          \* self._shelf_ids
    locations,          \* self._locations: name -> id
    location_ids,       \* self._location_ids
    srvShelves,         \* what get_shelves() returns now
    srvLocations,       \* what get_locations() returns now
    epc,                \* position of each ensure_resolver caller
    etmp,               \* the id set a caller has built and not yet stored
    eret,               \* the last return value of each caller
    \* ---- history of the resolver
    ensures,            \* ensure_resolver calls so far
    srvChanges,         \* changes of the server's shelf list so far
    fetchedShelves,     \* the list behind the stored self._shelves
    fetchedLocations,   \* the list behind the stored self._locations
    overlap,            \* two callers were inside ensure_resolver at once
    readyMaps,          \* the maps and id sets when the flag became true
    lateRpc,            \* an RPC was issued while the flag was true
    resolved,           \* the last resolve_shelf / resolve_location call
    \* ---- CameraStreamer: its fields, its thread and its callers
    detect,             \* self._detect
    annotate,           \* self._annotate
    on_frame,           \* whether an on_frame callback is installed
    cam_stop_event,     \* self._stop_event
    total_frames,       \* self._total_frames
    dropped,            \* self._dropped
    latest_frame,       \* self._latest_frame
    latest_detections,  \* self._latest_detections
    last_success_time,  \* self._last_success_time
    longest_gap_s,      \* self._longest_gap_s
    reconnected_at,     \* self._reconnected_at
    recovery_latency_ms, \* self._recovery_latency_ms
    cpos,               \* position of the capture thread in _run
    img,                \* _run: the image of this tick
    det_objects,        \* _run: det_objects
    b64,                \* _run: which bytes b64 encodes
    c_now,              \* _run: now
    ctime,              \* time.perf_counter()
    stats_pc,           \* position of a stats reader
    stats_total,        \* stats: total
    stats_out,          \* the dict the last stats read returned
    \* ---- history of the camera
    attempts,           \* captures started
    captured,           \* ticks that published a frame
    tick,               \* the running tick: what was there before, what failed
    frameCalls,         \* the frames handed to on_frame
    notifies,           \* notify_state_change calls so far
    connectedAt,        \* time of the most recent CONNECTED notification
    latencyLog,         \* every value recovery_latency_ms was assigned
    \* ---- the emergency_stop tool: one target, its callers
    es_reachable,       \* whether the robot answers
    es_pool,            \* whether the key is in the pool
    es_client,          \* whether the pooled Connection has a client
    es_stub,            \* the stub that client carries
    es_lock,            \* holder of the Connection's _client_lock, or 0
    es_pc,              \* position of each caller
    es_phase,           \* which _ensure_connected call a caller is in
    es_rpcs,            \* blocking RPCs attempted by the running call
    es_out,             \* what the last call of each caller returned
    es_calls,           \* calls made by each caller
    es_fresh,           \* whether the running call found the key absent
    es_removes,         \* remove() calls so far
    \* ---- TimeoutInterceptor and the calls that pass through it
    default_timeout,    \* self._default_timeout
    ic_details,         \* the client_call_details of the last call
    ic_request,         \* the request of the last call
    ic_forwarded,       \* what the continuation received, in order
    ic_result,          \* what intercept_unary_unary returned
    ic_calls,           \* calls made so far
    \* ---- RobotController: the executor thread inside the shelf-monitor block
    xpos,               \* position of the executor thread in lines 343-352
    listener            \* what the on_shelf_dropped callable does

execLocals == <<pc, action, target, timeout, now, deadline, command_id,
                reg_deadline, last_err, state_resp, result_resp, result>>
ctrlFields == <<monitoring_shelf, shelf_dropped, moving_shelf_id,
                on_shelf_dropped>>
metricVars == <<poll_count, poll_success_count, poll_failure_count,
                poll_rtt_list>>
countVars  == <<mainIssued, mainOk, mainFailed, regPolled>>
histVars   == <<calls, shelf_id, rpcs, accepted, sawInactive, sawStale, firstRead,
                dropLog, listenerCalls>>
startVars  == <<start_resp, catalog>>
execVars   == <<execLocals, ctrlFields, metricVars, histVars, startVars,
                countVars>>

poolVars   == <<pool, conns, tpc, op, handle, opsDone, removes, getReturns,
                returns, rpcStubs>>

healthVars == <<conn_state, on_state_change, monitor_stop, monitor_thread,
                ppc, pnew, spc, pings, starts, stops, joinTimeouts,
                silentStarts, changes, delivered>>

waitVars   == <<wpc, wtarget, wtimeout, wclock, wnotified, wresult, waits,
                wAtCall, wAtReturn, wblocked>>

retryVars  == <<rpc, max_attempts, base_delay, max_delay, retry_deadline,
                attempt, abs_deadline, last_error, delay, rnow, rresult, outcomes,
                callTimes, sleepLog>>

samplerVars == <<robot_state, state_lock, stop_event, spos, s_now, pose,
                 is_running, last_slow, stime, snaps, iter, lastBatteryOk,
                 taken, mutated, caller>>

resolverVars == <<resolver_ready, shelves, shelf_ids, locations, location_ids,
                  srvShelves, srvLocations, epc, etmp, eret, ensures,
                  srvChanges, fetchedShelves, fetchedLocations, overlap,
                  readyMaps, lateRpc, resolved>>

cameraVars == <<detect, annotate, on_frame, cam_stop_event, total_frames,
                dropped, latest_frame, latest_detections, last_success_time,
                longest_gap_s, reconnected_at, recovery_latency_ms, cpos, img,
                det_objects, b64, c_now, ctime, stats_pc, stats_total,
                stats_out, attempts, captured, tick, frameCalls, notifies,
                connectedAt, latencyLog>>

stopVars == <<es_reachable, es_pool, es_client, es_stub, es_lock, es_pc,
              es_phase, es_rpcs, es_out, es_calls, es_fresh, es_removes>>

interceptorVars == <<default_timeout, ic_details, ic_request, ic_forwarded,
                     ic_result, ic_calls>>

lockVars == <<xpos, listener>>

vars == <<execVars, poolVars, healthVars, waitVars, retryVars, samplerVars,
        resolverVars, cameraVars, stopVars, interceptorVars, lockVars>>

\* what the actions of one component leave alone
ExecOnly == UNCHANGED <<poolVars, healthVars, waitVars, retryVars,
        samplerVars, resolverVars, cameraVars, stopVars, interceptorVars,
        lockVars>>
PoolOnly == UNCHANGED <<execVars, healthVars, waitVars, retryVars,
        samplerVars, resolverVars, cameraVars, stopVars, interceptorVars,
        lockVars>>
HealthOnly == UNCHANGED <<execVars, poolVars, waitVars, retryVars,
        samplerVars, resolverVars, cameraVars, stopVars, interceptorVars,
        lockVars>>
WaitOnly == UNCHANGED <<execVars, poolVars, retryVars, samplerVars,
        resolverVars, cameraVars, stopVars, interceptorVars, lockVars>>
RetryOnly == UNCHANGED <<execVars, poolVars, healthVars, waitVars,
        samplerVars, resolverVars, cameraVars, stopVars, interceptorVars,
        lockVars>>
SamplerOnly == UNCHANGED <<execVars, poolVars, healthVars, waitVars,
        retryVars, resolverVars, cameraVars, stopVars, interceptorVars,
        lockVars>>
ResolverOnly == UNCHANGED <<execVars, poolVars, healthVars, waitVars,
        retryVars, samplerVars, cameraVars, stopVars, interceptorVars,
        lockVars>>
CameraOnly == UNCHANGED <<execVars, poolVars, healthVars, waitVars, retryVars,
        samplerVars, resolverVars, stopVars, interceptorVars, lockVars>>
StopOnly == UNCHANGED <<execVars, poolVars, healthVars, waitVars, retryVars,
        samplerVars, resolverVars, cameraVars, interceptorVars, lockVars>>
InterceptorOnly == UNCHANGED <<execVars, poolVars, healthVars, waitVars,
        retryVars, samplerVars, resolverVars, cameraVars, stopVars, lockVars>>
LockOnly == UNCHANGED <<execVars, poolVars, healthVars, waitVars, retryVars,
        samplerVars, resolverVars, cameraVars, stopVars, interceptorVars>>

---------------------------------------------------------------------------
(* Bounds of the model *)

MaxStarts == 2          \* prober threads started per behaviour
MaxPings == 3           \* pings per behaviour

MaxCalls == 2           \* serialised commands per behaviour
MaxRpcTicks == 1        \* an RPC takes 0..MaxRpcTicks ticks
MaxTimeout == 7         \* the requested timeout of a command (ticks)

NumThreads == 2         \* caller threads using the pool
MaxOps == 2             \* operations per caller thread
MaxRemoves == 1         \* remove / clear_pool calls per behaviour

MaxAttempts == 3        \* the largest max_attempts
MaxBaseDelay == 2       \* the largest base_delay (ticks)
MaxMaxDelay == 3        \* the largest max_delay (ticks)
MaxDeadline == 6        \* the largest deadline of with_retry (ticks)
MaxCallTicks == 1       \* an invocation of the callable takes 0..MaxCallTicks

FastInterval == 1       \* fast_interval (ticks)
SlowInterval == 2       \* slow_interval (ticks)
StartTime == 10         \* time.time() when the controller is built
MaxCycles == 1          \* sampler waits that run their full interval
MaxItems == 2           \* shelves and locations the robot has, together
MaxEnsures == 3         \* ensure_resolver calls per behaviour
MaxSrvChanges == 1      \* changes of the server's shelf list per behaviour
NumCallers == 2         \* threads calling ensure_resolver

MaxIntercepts == 2      \* unary calls through one interceptor
NumStoppers == 2        \* threads calling emergency_stop
MaxStopCalls == 2       \* emergency_stop calls per thread
MaxStopRemoves == 1     \* remove() calls on the target

MaxFrames == 2          \* capture attempts per behaviour
MaxCamClock == 2        \* how far perf_counter() is followed (ticks)
MaxNotifies == 2        \* notify_state_change calls per behaviour

MaxSnaps == 2           \* snapshots taken per behaviour

MaxWaits == 1           \* wait_for_state calls per behaviour
MaxWaitTimeout == 2     \* the finite timeout of wait_for_state (ticks)
MaxWaitClock == 3       \* how long a wait is followed (ticks)

(* Program constants, in ticks of 0.2 s *)

RegBudget == 25         \* registration wait: 5.0 s
RegSleep == 1           \* registration cadence: 0.2 s
PollInterval == 5       \* poll_interval default 1.0 s
RetryDelay == 5         \* retry_delay default 1.0 s

---------------------------------------------------------------------------
(* Values *)

Min(a, b) == IF a <= b THEN a ELSE b

RpcTicks == 0..MaxRpcTicks
Timeouts == {MaxTimeout}

ConnectionState == {"CONNECTED", "DISCONNECTED"}

Actions == {"move_to_location", "return_home", "move_shelf", "return_shelf"}

CommandStates == {"UNSPECIFIED", "PENDING", "RUNNING"}
\* command ids the server reports; StartCommand hands out StartIds (ids are
\* only ever compared for equality)
CmdIds == {"cmd-A", "cmd-old"}
StartIds == {"cmd-A"}
ErrorCodes == {10253}
Titles == {"", "Shelf not found"}
ShelfIds == {"S01"}
None == "None"

\* exceptions an RPC can raise, by their str()
RpcErrors == {"UNAVAILABLE"}
\* a fault that no retry can cure, and what StartCommand can raise
PermanentErrors == {"INVALID_ARGUMENT"}
StartErrors == RpcErrors \cup PermanentErrors
TimeoutErrorText == "deadline exceeded without any attempt"
NoErr == "no error"

NoResp == [command_id |-> "", state |-> "NONE", success |-> FALSE, error_code |-> 0]
NoResult == [none |-> TRUE]

StateResponses ==
    {[command_id |-> c, state |-> s, success |-> FALSE, error_code |-> 0] :
        c \in CmdIds, s \in CommandStates}

ResultResponses ==
    {[command_id |-> c, state |-> "NONE", success |-> TRUE, error_code |-> 0] :
        c \in CmdIds}
    \cup
    {[command_id |-> c, state |-> "NONE", success |-> FALSE, error_code |-> e] :
        c \in CmdIds, e \in ErrorCodes}

\* Python truthiness of an Optional[str]
Truthy(s) == s # "" /\ s # None

---------------------------------------------------------------------------
(* Result dicts of _execute_command *)

OkResult(elapsed) ==
    [ok |-> TRUE, action |-> action, target |-> target, elapsed |-> elapsed]

\* mutant: the exception leaves the executor instead of becoming a dict
ExcResult_Escapes(text, elapsed) == [raised |-> text]

\* the except clauses of lines 281-289 and 369-377
ExcResult(text, elapsed) ==
    [ok |-> FALSE, action |-> action, target |-> target, error |-> text,
     elapsed |-> elapsed]

\* start_resp before StartCommand has answered
NoStartResp ==
    [bound |-> FALSE, command_id |-> "", success |-> FALSE, error_code |-> 0]

StartResp(id, ok, ec) ==
    [bound |-> TRUE, command_id |-> id, success |-> ok, error_code |-> ec]

\* get_robot_error_code(): it raises, or returns a dict from error codes to
\* entries with an English and a localised title, either of which may be empty
LocalTitles == {"", "Tana ga mitsukarimasen"}
CatalogEntries == [title_en : Titles, title : LocalTitles]
NoDefinitions == [c \in {} |-> [title_en |-> "", title |-> ""]]
Catalogs ==
    {[raised |-> TRUE, definitions |-> NoDefinitions]}
    \cup {[raised |-> FALSE, definitions |-> f] :
             f \in UNION {[D -> CatalogEntries] : D \in SUBSET ErrorCodes}}
NoCatalog == [raised |-> FALSE, definitions |-> NoDefinitions]

\* mutant: the localised title is preferred
ResolveErrorDescription_TitleFirst(cat, ec) ==
    IF cat.raised \/ ec \notin DOMAIN cat.definitions THEN ""
    ELSE IF cat.definitions[ec].title # "" THEN cat.definitions[ec].title
    ELSE cat.definitions[ec].title_en

\* _resolve_error_description: title_en or title or "", "" when the fetch
\* raised or the code has no entry
ResolveErrorDescription(cat, ec) ==
    IF cat.raised THEN ""
    ELSE IF ec \in DOMAIN cat.definitions
         THEN LET info == cat.definitions[ec]
              IN  IF info.title_en # "" THEN info.title_en
                  ELSE IF info.title # "" THEN info.title
                  ELSE ""
         ELSE ""

ErrorText(ec, desc) ==
    "error_code=" \o ToString(ec) \o (IF desc # "" THEN ": " \o desc ELSE "")

RejectedResult(ec, desc, elapsed) ==
    [ok |-> FALSE, action |-> action, target |-> target, error_code |-> ec,
     error |-> ErrorText(ec, desc), elapsed |-> elapsed]

TimeoutResult ==
    [ok |-> FALSE, action |-> action, target |-> target, error |-> "TIMEOUT",
     timeout |-> timeout]

---------------------------------------------------------------------------
(* The executor's tests *)

\* mutant: our id in any state counts as registered
Registered_AnyState(resp, id) == resp.command_id = id

\* state_resp.command_id == command_id and state in (RUNNING, PENDING)
Registered(resp, id) ==
    resp.command_id = id /\ resp.state \in {"RUNNING", "PENDING"}

\* mutant: PENDING is taken for a finished command
Completed_OnlyRunning(resp, id) ==
    resp.state # "RUNNING" \/ resp.command_id # id

\* state not in (RUNNING, PENDING) or state_resp.command_id != command_id
Completed(resp, id) ==
    resp.state \notin {"RUNNING", "PENDING"} \/ resp.command_id # id

\* mutant: the identity test is dropped
ResultIsOurs_AnyId(resp, id) == TRUE

\* mutant: a failed result is attributed without the identity test
ResultIsOurs_OrFailed(resp, id) == resp.command_id = id \/ ~resp.success

\* result_resp.command_id == command_id
ResultIsOurs(resp, id) == resp.command_id = id

\* the target label each wrapper hands to the executor
TargetLabel(a) ==
    CASE a = "move_to_location" -> "Kitchen"
      [] a = "return_home"      -> ""
      [] a = "move_shelf"       -> "Shelf1 -> Kitchen"
      [] a = "return_shelf"     -> "Shelf1"


---------------------------------------------------------------------------
(* RobotController: construction *)

InitExec ==
    /\ pc = "idle"
    /\ action = "none"
    /\ target = ""
    /\ timeout = 0
    /\ now = 0
    /\ deadline = 0
    /\ command_id = ""
    /\ reg_deadline = 0
    /\ last_err = NoErr
    /\ state_resp = NoResp
    /\ result_resp = NoResp
    /\ result = NoResult
    /\ start_resp = NoStartResp
    /\ catalog = NoCatalog
    /\ monitoring_shelf = FALSE
    /\ shelf_dropped = FALSE
    /\ moving_shelf_id = None
    /\ on_shelf_dropped \in BOOLEAN
    /\ poll_count = 0
    /\ poll_success_count = 0
    /\ poll_failure_count = 0
    /\ poll_rtt_list = <<>>
    /\ mainIssued = 0
    /\ mainOk = 0
    /\ mainFailed = 0
    /\ regPolled = FALSE
    /\ calls = 0
    /\ shelf_id = ""
    /\ rpcs = {}
    /\ accepted = FALSE
    /\ sawInactive = FALSE
    /\ sawStale = FALSE
    /\ firstRead = "unread"
    /\ dropLog = <<>>
    /\ listenerCalls = <<>>

---------------------------------------------------------------------------
(* RobotController: movement wrappers and _execute_command *)

\* mutant: return_shelf forgets to disarm the monitor
Return_NoDisarm(res) ==
    /\ pc' = "done"
    /\ result' = res
    /\ UNCHANGED monitoring_shelf

\* the executor returns res to its wrapper; return_shelf then disarms the
\* shelf monitor before returning res to the caller
Return(res) ==
    /\ pc' = "done"
    /\ result' = res
    /\ monitoring_shelf' = IF action = "return_shelf" THEN FALSE
                           ELSE monitoring_shelf

\* the wrapper has handed its result to the caller: the call's frame is gone
Returned ==
    /\ pc = "done"
    /\ pc' = "idle"
    /\ action' = "none"
    /\ target' = ""
    /\ timeout' = 0
    /\ now' = 0
    /\ deadline' = 0
    /\ command_id' = ""
    /\ reg_deadline' = 0
    /\ last_err' = NoErr
    /\ state_resp' = NoResp
    /\ result_resp' = NoResp
    /\ result' = NoResult
    /\ start_resp' = NoStartResp
    /\ catalog' = NoCatalog
    /\ shelf_id' = ""
    /\ rpcs' = {}
    /\ accepted' = FALSE
    /\ sawInactive' = FALSE
    /\ sawStale' = FALSE
    /\ firstRead' = "unread"
    /\ dropLog' = <<>>
    /\ listenerCalls' = <<>>
    /\ regPolled' = FALSE
    /\ UNCHANGED <<ctrlFields, metricVars, calls, mainIssued, mainOk, mainFailed>>
    /\ ExecOnly

\* move_to_location / return_home / move_shelf / return_shelf up to the
\* executor's first RPC: build the command, (move_shelf) seed and arm the
\* shelf monitor, compute the deadline
Invoke(a, t, sid) ==
    /\ pc = "idle"
    /\ calls < MaxCalls
    /\ calls' = calls + 1
    /\ action' = a
    /\ target' = TargetLabel(a)
    /\ timeout' = t
    /\ deadline' = now + t
    /\ pc' = "start"
    /\ IF a = "move_shelf"
       THEN /\ shelf_dropped' = FALSE
            /\ moving_shelf_id' = sid
            /\ monitoring_shelf' = TRUE
            /\ shelf_id' = sid
       ELSE /\ UNCHANGED <<shelf_dropped, moving_shelf_id, monitoring_shelf>>
            /\ shelf_id' = ""
    /\ UNCHANGED <<now, command_id, reg_deadline, last_err, state_resp,
                   result_resp, result>>
    /\ UNCHANGED <<on_shelf_dropped, metricVars>>
    /\ UNCHANGED <<rpcs, accepted, sawInactive, sawStale, firstRead, dropLog,
                   listenerCalls>>
    /\ UNCHANGED startVars
    /\ UNCHANGED countVars
    /\ ExecOnly

\* _call_with_retry leaves its loop (or never enters it) and raises; the
\* executor returns the exception text
RetryRaises ==
    Return(ExcResult(IF last_err # NoErr THEN last_err ELSE TimeoutErrorText,
                     now))

\* _call_with_retry, one failed attempt that took dt: remember the error,
\* then break when nothing remains, else sleep min(retry_delay, remaining)
RetryFailed(e, dt) ==
    LET t == now + dt
        remaining == deadline - t
    IN  IF remaining <= 0
        THEN /\ Return(ExcResult(e, t))
             /\ now' = t
             /\ last_err' = e
        ELSE /\ now' = t + Min(RetryDelay, remaining)
             /\ last_err' = e
             /\ UNCHANGED <<pc, result, monitoring_shelf>>

\* step 1 and 2: one pass of _call_with_retry(stub.StartCommand), then the
\* acceptance test and the registration deadline
StartCommand ==
    /\ pc = "start"
    /\ IF now >= deadline
       THEN /\ RetryRaises
            /\ UNCHANGED <<now, last_err, command_id, reg_deadline, rpcs,
                           accepted, startVars>>
       ELSE \E dt \in RpcTicks :
                \/ \E e \in StartErrors :
                    /\ RetryFailed(e, dt)
                    /\ rpcs' = rpcs \cup {"StartCommand"}
                    /\ UNCHANGED <<command_id, reg_deadline, accepted,
                                   startVars>>
                \/ \E id \in StartIds, ec \in ErrorCodes, cat \in Catalogs,
                      dt2 \in RpcTicks :
                    \* rejected at once: elapsed is taken, then the error
                    \* description is fetched
                    /\ start_resp' = StartResp(id, FALSE, ec)
                    /\ command_id' = id
                    /\ catalog' = cat
                    /\ rpcs' = rpcs \cup {"StartCommand", "GetRobotErrorCode"}
                    /\ now' = now + dt + dt2
                    /\ Return(RejectedResult(ec,
                                             ResolveErrorDescription(cat, ec),
                                             now + dt))
                    /\ UNCHANGED <<last_err, reg_deadline, accepted>>
                \/ \E id \in StartIds :
                    /\ start_resp' = StartResp(id, TRUE, 0)
                    /\ command_id' = id
                    /\ rpcs' = rpcs \cup {"StartCommand"}
                    /\ now' = now + dt
                    /\ reg_deadline' = Min(now + dt + RegBudget, deadline)
                    /\ pc' = "reg"
                    /\ accepted' = TRUE
                    /\ UNCHANGED <<last_err, result, monitoring_shelf,
                                   catalog>>
    /\ UNCHANGED <<action, target, timeout, deadline, state_resp, result_resp>>
    /\ UNCHANGED <<shelf_dropped, moving_shelf_id, on_shelf_dropped>>
    /\ UNCHANGED <<metricVars, calls, shelf_id, sawInactive, sawStale,
                   firstRead, dropLog, listenerCalls>>
    /\ UNCHANGED countVars
    /\ ExecOnly

\* step 3: one pass of the registration loop
RegistrationPoll ==
    /\ pc = "reg"
    /\ IF now >= reg_deadline
       THEN \* while ... else: registration not confirmed, go on
            /\ pc' = "poll"
            /\ UNCHANGED <<now, rpcs, regPolled, state_resp>>
       ELSE /\ rpcs' = rpcs \cup {"GetCommandState"}
            /\ regPolled' = TRUE
            /\ \E dt \in RpcTicks :
                \/ \* the poll raised: ignored, sleep 0.2 s
                   /\ now' = now + dt + RegSleep
                   /\ pc' = pc
                   /\ UNCHANGED state_resp
                \/ \E r \in StateResponses :
                    /\ state_resp' = r
                    /\ IF Registered(r, command_id)
                       THEN /\ now' = now + dt
                            /\ pc' = "poll"
                       ELSE /\ now' = now + dt + RegSleep
                            /\ pc' = pc
    /\ UNCHANGED <<action, target, timeout, deadline, command_id, reg_deadline,
                   last_err, result_resp, result>>
    /\ UNCHANGED <<ctrlFields, metricVars>>
    /\ UNCHANGED <<calls, shelf_id, accepted, sawInactive, sawStale, firstRead,
                   dropLog, listenerCalls>>
    /\ UNCHANGED <<startVars, mainIssued, mainOk, mainFailed>>
    /\ ExecOnly

\* observation: the poll response reports another command or a finished one
Inactive(resp) ==
    resp.command_id # command_id \/ resp.state = "UNSPECIFIED"

\* step 5, the test of lines 358-362 on the poll of this iteration that
\* ended at time t: fetch the last result, or sleep poll_interval
CheckCompletion(resp, t) ==
    IF Completed(resp, command_id)
    THEN /\ pc' = "result"
         /\ now' = t
         /\ last_err' = NoErr
         /\ sawInactive' = (sawInactive \/ Inactive(resp))
         /\ state_resp' = NoResp
    ELSE /\ pc' = "poll"
         /\ now' = t + PollInterval
         /\ state_resp' = NoResp
         /\ sawInactive' = (sawInactive \/ Inactive(resp))
         /\ UNCHANGED last_err

\* mutant: a poll that raised is not counted
PollFailureCounted_Not(n) == n

\* self._metrics.poll_failure_count += 1
PollFailureCounted(n) == n + 1

\* step 4: the head of one main-loop iteration: the deadline test and
\* poll_count += 1
MainPoll ==
    /\ pc = "poll"
    /\ IF now >= deadline
       THEN /\ Return(TimeoutResult)
            /\ UNCHANGED metricVars
       ELSE /\ pc' = "polling"
            /\ poll_count' = poll_count + 1
            /\ UNCHANGED <<result, monitoring_shelf, poll_success_count,
                           poll_failure_count, poll_rtt_list>>
    /\ UNCHANGED <<action, target, timeout, now, deadline, command_id,
                   reg_deadline, last_err, state_resp, result_resp>>
    /\ UNCHANGED <<shelf_dropped, moving_shelf_id, on_shelf_dropped>>
    /\ UNCHANGED <<histVars, startVars, countVars>>
    /\ ExecOnly

\* step 4, the try block: GetCommandState, its round trip and the counters
MainPollRpc ==
    /\ pc = "polling"
    /\ rpcs' = rpcs \cup {"GetCommandState"}
    /\ mainIssued' = mainIssued + 1
    /\ UNCHANGED <<result, result_resp, poll_count, regPolled>>
    /\ \E dt \in RpcTicks :
        \/ \* the poll raised: count it, sleep, next iteration
           /\ poll_failure_count' = PollFailureCounted(poll_failure_count)
           /\ mainFailed' = mainFailed + 1
           /\ now' = now + dt + PollInterval
           /\ pc' = "poll"
           /\ UNCHANGED <<last_err, state_resp, sawInactive,
                          poll_success_count, poll_rtt_list, mainOk,
                          monitoring_shelf>>
        \/ \E r \in StateResponses :
            /\ poll_rtt_list' = Append(poll_rtt_list, dt)
            /\ poll_success_count' = poll_success_count + 1
            /\ mainOk' = mainOk + 1
            /\ UNCHANGED <<poll_failure_count, mainFailed, monitoring_shelf>>
            /\ IF monitoring_shelf
               THEN /\ pc' = "shelf"
                    /\ now' = now + dt
                    /\ state_resp' = r
                    /\ UNCHANGED <<last_err, sawInactive>>
               ELSE CheckCompletion(r, now + dt)
    /\ UNCHANGED <<action, target, timeout, deadline, command_id, reg_deadline>>
    /\ UNCHANGED <<shelf_dropped, moving_shelf_id, on_shelf_dropped>>
    /\ UNCHANGED <<calls, shelf_id, accepted, sawStale, firstRead, dropLog,
                   listenerCalls>>
    /\ UNCHANGED startVars
    /\ ExecOnly

\* mutant: the flag follows the latest reading, a shelf seen again clears it
ShelfUpdate_FlagFollowsReading(mid, raised) ==
    LET prev == moving_shelf_id
    IN  /\ moving_shelf_id' = IF mid = "" THEN None ELSE mid
        /\ IF Truthy(prev) /\ mid = ""
           THEN /\ shelf_dropped' = TRUE
                /\ dropLog' = Append(dropLog, prev)
                /\ IF on_shelf_dropped
                   THEN /\ listenerCalls' = Append(listenerCalls, prev)
                        /\ monitoring_shelf' = IF raised THEN monitoring_shelf
                                               ELSE FALSE
                   ELSE /\ monitoring_shelf' = FALSE
                        /\ UNCHANGED listenerCalls
           ELSE /\ shelf_dropped' = FALSE
                /\ UNCHANGED <<dropLog, listenerCalls, monitoring_shelf>>

\* lines 345-352 under the state lock, for a moving-shelf read mid; the
\* listener either returns or raises (raised), and its exception leaves the
\* block before the monitor is disarmed
ShelfUpdate(mid, raised) ==
    LET prev == moving_shelf_id
    IN  /\ moving_shelf_id' = IF mid = "" THEN None ELSE mid
        /\ IF Truthy(prev) /\ mid = ""
           THEN /\ shelf_dropped' = TRUE
                /\ dropLog' = Append(dropLog, prev)
                /\ IF on_shelf_dropped
                   THEN /\ listenerCalls' = Append(listenerCalls, prev)
                        /\ monitoring_shelf' = IF raised THEN monitoring_shelf
                                               ELSE FALSE
                   ELSE /\ monitoring_shelf' = FALSE
                        /\ UNCHANGED listenerCalls
           ELSE UNCHANGED <<shelf_dropped, dropLog, listenerCalls,
                            monitoring_shelf>>

\* step 4, shelf monitoring of an armed iteration, then the completion test
ShelfMonitor ==
    /\ pc = "shelf"
    /\ rpcs' = rpcs \cup {"GetMovingShelfId"}
    /\ \E dt \in RpcTicks :
        \/ \* get_moving_shelf_id raised: logged
           /\ CheckCompletion(state_resp, now + dt)
           /\ UNCHANGED <<shelf_dropped, moving_shelf_id, monitoring_shelf,
                          firstRead, dropLog, listenerCalls>>
        \/ \E mid \in ShelfIds \cup {""}, raised \in BOOLEAN :
            /\ raised => (on_shelf_dropped /\ Truthy(moving_shelf_id) /\ mid = "")
            /\ ShelfUpdate(mid, raised)
            /\ firstRead' = IF firstRead = "unread" THEN mid ELSE firstRead
            /\ CheckCompletion(state_resp, now + dt)
    /\ UNCHANGED <<action, target, timeout, deadline, command_id, reg_deadline,
                   result_resp, result>>
    /\ UNCHANGED <<on_shelf_dropped, metricVars>>
    /\ UNCHANGED <<calls, shelf_id, accepted, sawStale>>
    /\ UNCHANGED startVars
    /\ UNCHANGED countVars
    /\ ExecOnly

\* step 5: one pass of _call_with_retry(stub.GetLastCommandResult), then the
\* identity test on the response
FetchResult ==
    /\ pc = "result"
    /\ IF now >= deadline
       THEN /\ RetryRaises
            /\ UNCHANGED <<now, last_err, result_resp, rpcs, sawStale>>
       ELSE /\ rpcs' = rpcs \cup {"GetLastCommandResult"}
            /\ \E dt \in RpcTicks :
                \/ \E e \in RpcErrors :
                    /\ RetryFailed(e, dt)
                    /\ UNCHANGED <<result_resp, sawStale>>
                \/ \E r \in ResultResponses, desc \in Titles :
                    /\ sawStale' = (sawStale \/ r.command_id # command_id)
                    /\ IF ResultIsOurs(r, command_id)
                       THEN /\ now' = now + dt
                            /\ result_resp' = r
                            /\ Return(IF r.success
                                      THEN OkResult(now + dt)
                                      ELSE RejectedResult(r.error_code, desc,
                                                          now + dt))
                            /\ UNCHANGED last_err
                       ELSE \* stale result: log, sleep, next iteration
                            /\ now' = now + dt + PollInterval
                            /\ pc' = "poll"
                            /\ result_resp' = NoResp
                            /\ UNCHANGED <<last_err, result, monitoring_shelf>>
    /\ UNCHANGED <<action, target, timeout, deadline, command_id, reg_deadline,
                   state_resp>>
    /\ UNCHANGED <<shelf_dropped, moving_shelf_id, on_shelf_dropped>>
    /\ UNCHANGED <<metricVars, calls, shelf_id, accepted, sawInactive, firstRead,
                   dropLog, listenerCalls>>
    /\ UNCHANGED startVars
    /\ UNCHANGED countVars
    /\ ExecOnly

\* reset_shelf_monitor(), called between commands
ResetShelfMonitor ==
    /\ pc = "idle"
    /\ monitoring_shelf' = FALSE
    /\ shelf_dropped' = FALSE
    /\ moving_shelf_id' = None
    /\ UNCHANGED <<execLocals, on_shelf_dropped, metricVars, histVars>>
    /\ UNCHANGED startVars
    /\ UNCHANGED countVars
    /\ ExecOnly

\* reset_metrics(), called between commands
ResetMetrics ==
    /\ pc = "idle"
    /\ poll_count' = 0
    /\ poll_success_count' = 0
    /\ poll_failure_count' = 0
    /\ poll_rtt_list' = <<>>
    /\ mainIssued' = 0
    /\ mainOk' = 0
    /\ mainFailed' = 0
    /\ UNCHANGED <<execLocals, ctrlFields, histVars, regPolled>>
    /\ UNCHANGED startVars
    /\ ExecOnly

NextExec ==
    \/ \E a \in Actions, t \in Timeouts, sid \in ShelfIds : Invoke(a, t, sid)
    \/ Returned
    \/ StartCommand
    \/ RegistrationPoll
    \/ MainPoll
    \/ MainPollRpc
    \/ ShelfMonitor
    \/ FetchResult
    \/ ResetShelfMonitor
    \/ ResetMetrics

---------------------------------------------------------------------------
(* KachakaConnection: pool and lazy client initialisation *)

Threads == 1..NumThreads

\* target strings, as sequences of characters
DefaultPort == <<"2", "6", "4", "0", "0">>
Targets == {<<"h">>, <<"h", ":">> \o DefaultPort, <<"g">>}

Contains(str, ch) == \E i \in 1..Len(str) : str[i] = ch

\* _normalise_target: append the gRPC port when the target has no ":"
Normalise(t) ==
    IF ~Contains(t, ":") THEN t \o <<":">> \o DefaultPort ELSE t

Keys == {Normalise(t) : t \in Targets}

\* KachakaConnection.__init__(target, timeout): no client yet
NewConnection(t) ==
    [target |-> Normalise(t), client |-> 0, stub |-> "none", lock |-> 0,
     built |-> 0]

\* mutant: the lookup never finds the key
InPool_Never(key) == FALSE

\* key in cls._pool
InPool(key) == pool[key] # 0

\* self._client is not None, the unlocked test of line 248
ClientSet(c) == conns[c].client # 0

\* mutant: the test under the lock is dropped
ClientSetLocked_Never(c) == FALSE

\* self._client is not None, the test under _client_lock of line 251
ClientSetLocked(c) == conns[c].client # 0

InitPool ==
    /\ pool = [k \in Keys |-> 0]
    /\ conns = <<>>
    /\ tpc = [t \in Threads |-> "idle"]
    /\ op = [t \in Threads |-> <<"none", <<>> >>]
    /\ handle = [t \in Threads |-> 0]
    /\ opsDone = [t \in Threads |-> 0]
    /\ removes = 0
    /\ getReturns = {}
    /\ returns = {}
    /\ rpcStubs = {}

\* get(target), lines 72-76: normalise, then look up or create under
\* _pool_lock
Get(t, tg) ==
    LET key == Normalise(tg)
    IN  /\ tpc[t] = "idle"
        /\ opsDone[t] < MaxOps
        /\ opsDone' = [opsDone EXCEPT ![t] = @ + 1]
        /\ op' = [op EXCEPT ![t] = <<"get", tg>>]
        /\ IF ~InPool(key)
           THEN /\ conns' = Append(conns, NewConnection(key))
                /\ pool' = [pool EXCEPT ![key] = Len(conns) + 1]
                /\ handle' = [handle EXCEPT ![t] = Len(conns) + 1]
           ELSE /\ handle' = [handle EXCEPT ![t] = pool[key]]
                /\ UNCHANGED <<pool, conns>>
        /\ tpc' = [tpc EXCEPT ![t] = "ensure"]
        /\ UNCHANGED <<removes, getReturns, returns, rpcStubs>>
        /\ PoolOnly

\* conn.client / conn.ping() on a Connection the thread already holds
Access(t, o) ==
    /\ tpc[t] = "idle"
    /\ handle[t] # 0
    /\ opsDone[t] < MaxOps
    /\ opsDone' = [opsDone EXCEPT ![t] = @ + 1]
    /\ op' = [op EXCEPT ![t] = <<o, <<>> >>]
    /\ tpc' = [tpc EXCEPT ![t] = "ensure"]
    /\ UNCHANGED <<pool, conns, handle, removes, getReturns, returns, rpcStubs>>
    /\ PoolOnly

\* _ensure_connected returned: get returns the Connection, client returns
\* self._client, ping goes on to its RPCs through the client's stub
Leave(t) ==
    LET c == handle[t]
    IN  /\ returns' = returns \cup
              {[op |-> op[t][1], conn |-> c, client |-> conns[c].client,
                stub |-> conns[c].stub]}
        /\ getReturns' = IF op[t][1] = "get"
                         THEN getReturns \cup {<<op[t][2], c>>}
                         ELSE getReturns
        /\ tpc' = [tpc EXCEPT ![t] = IF op[t][1] = "ping" THEN "rpc" ELSE "idle"]

\* _ensure_connected, line 248: the unlocked test
EnsureCheck(t) ==
    /\ tpc[t] = "ensure"
    /\ IF ClientSet(handle[t])
       THEN Leave(t)
       ELSE /\ tpc' = [tpc EXCEPT ![t] = "lock"]
            /\ UNCHANGED <<getReturns, returns>>
    /\ UNCHANGED <<pool, conns, op, handle, opsDone, removes, rpcStubs>>
    /\ PoolOnly

\* lines 250-252: take _client_lock and test again
EnsureLock(t) ==
    LET c == handle[t]
    IN  /\ tpc[t] = "lock"
        /\ conns[c].lock = 0
        /\ IF ClientSetLocked(c)
           THEN /\ Leave(t)
                /\ UNCHANGED conns
           ELSE /\ conns' = [conns EXCEPT ![c].lock = t]
                /\ tpc' = [tpc EXCEPT ![t] = "construct"]
                /\ UNCHANGED <<getReturns, returns>>
        /\ UNCHANGED <<pool, op, handle, opsDone, removes, rpcStubs>>
        /\ PoolOnly

\* line 254: self._client = KachakaApiClient(self.target), a new client
\* that still carries the SDK's plain stub
Construct(t) ==
    LET c == handle[t]
    IN  /\ tpc[t] = "construct"
        /\ conns' = [conns EXCEPT ![c].client = conns[c].built + 1,
                                  ![c].built = @ + 1,
                                  ![c].stub = "plain"]
        /\ tpc' = [tpc EXCEPT ![t] = "wrap"]
        /\ UNCHANGED <<pool, op, handle, opsDone, removes, getReturns, returns,
                       rpcStubs>>
        /\ PoolOnly

\* lines 260-264: replace the stub by one over the intercepted channel
WrapStub(t) ==
    LET c == handle[t]
    IN  /\ tpc[t] = "wrap"
        /\ conns' = [conns EXCEPT ![c].stub = "intercepted"]
        /\ tpc' = [tpc EXCEPT ![t] = "probe"]
        /\ UNCHANGED <<pool, op, handle, opsDone, removes, getReturns, returns,
                       rpcStubs>>
        /\ PoolOnly

\* lines 267-275: the connectivity probe (its failure is only logged), then
\* the lock is released and _ensure_connected returns
Probe(t) ==
    LET c == handle[t]
    IN  /\ tpc[t] = "probe"
        /\ conns' = [conns EXCEPT ![c].lock = 0]
        /\ returns' = returns \cup
              {[op |-> op[t][1], conn |-> c, client |-> conns[c].client,
                stub |-> conns[c].stub]}
        /\ getReturns' = IF op[t][1] = "get"
                         THEN getReturns \cup {<<op[t][2], c>>}
                         ELSE getReturns
        /\ tpc' = [tpc EXCEPT ![t] = IF op[t][1] = "ping" THEN "rpc" ELSE "idle"]
        /\ UNCHANGED <<pool, op, handle, opsDone, removes, rpcStubs>>
        /\ PoolOnly

\* ping, lines 108-109: the RPCs go through the stub the client carries now
PingRpc(t) ==
    /\ tpc[t] = "rpc"
    /\ rpcStubs' = rpcStubs \cup {conns[handle[t]].stub}
    /\ tpc' = [tpc EXCEPT ![t] = "idle"]
    /\ UNCHANGED <<pool, conns, op, handle, opsDone, removes, getReturns, returns>>
    /\ PoolOnly

\* remove(target): pop the key under _pool_lock
Remove(tg) ==
    /\ removes < MaxRemoves
    /\ removes' = removes + 1
    /\ pool' = [pool EXCEPT ![Normalise(tg)] = 0]
    /\ UNCHANGED <<conns, tpc, op, handle, opsDone, getReturns, returns, rpcStubs>>
    /\ PoolOnly

\* clear_pool(): drop every entry under _pool_lock
ClearPool ==
    /\ removes < MaxRemoves
    /\ removes' = removes + 1
    /\ pool' = [k \in Keys |-> 0]
    /\ UNCHANGED <<conns, tpc, op, handle, opsDone, getReturns, returns, rpcStubs>>
    /\ PoolOnly

NextPool ==
    \/ \E t \in Threads, tg \in Targets : Get(t, tg)
    \/ \E t \in Threads, o \in {"client", "ping"} : Access(t, o)
    \/ \E t \in Threads : EnsureCheck(t)
    \/ \E t \in Threads : EnsureLock(t)
    \/ \E t \in Threads : Construct(t)
    \/ \E t \in Threads : WrapStub(t)
    \/ \E t \in Threads : Probe(t)
    \/ \E t \in Threads : PingRpc(t)
    \/ \E tg \in Targets : Remove(tg)
    \/ ClearPool

---------------------------------------------------------------------------
(* KachakaConnection: health monitoring *)

Probers == 1..MaxStarts
Listeners == {"L1"}

\* mutant: the running prober is not noticed
IsAlive_Never(p) == FALSE

\* threading.Thread.is_alive() of the prober p
IsAlive(p) == ppc[p] \notin {"unborn", "exited"}

\* mutant: every ping outcome counts as a change
SameState_Never(new) == FALSE

\* mutant: no ping outcome counts as a change
SameState_Always(new) == TRUE

\* self._state == new_state, the test of line 224
SameState(new) == conn_state = new

InitHealth ==
    /\ on_state_change = None
    /\ monitor_stop = FALSE
    /\ monitor_thread = 0
    /\ ppc = [p \in Probers |-> "unborn"]
    /\ pnew = [p \in Probers |-> "none"]
    /\ spc = "idle"
    /\ pings = 0
    /\ starts = 0
    /\ stops = 0
    /\ joinTimeouts = 0
    /\ silentStarts = 0
    /\ changes = <<>>
    /\ delivered = <<>>

\* start_monitoring(interval, on_state_change), lines 185-195: return at
\* once when a prober is alive, else install the listener, clear the stop
\* event and start a new prober (the interval goes to the new thread only)
StartMonitoring(cb) ==
    /\ spc = "idle"
    /\ IF monitor_thread # 0 /\ IsAlive(monitor_thread)
       THEN /\ spc' = "ignored"
            /\ UNCHANGED <<on_state_change, monitor_stop, monitor_thread, ppc,
                           starts, silentStarts>>
       ELSE /\ starts < MaxStarts
            /\ spc' = "started"
            /\ on_state_change' = cb
            /\ monitor_stop' = FALSE
            /\ monitor_thread' = starts + 1
            /\ ppc' = [ppc EXCEPT ![starts + 1] = "wait"]
            /\ starts' = starts + 1
            /\ silentStarts' = silentStarts + (IF cb = None THEN 1 ELSE 0)
    /\ UNCHANGED <<conn_state, pnew, pings, stops, joinTimeouts, changes,
                   delivered>>
    /\ HealthOnly

\* start_monitoring returns to its caller (line 186 or line 196)
StartReturns ==
    /\ spc \in {"ignored", "started"}
    /\ spc' = "idle"
    /\ UNCHANGED <<conn_state, on_state_change, monitor_stop, monitor_thread,
                   ppc, pnew, pings, starts, stops, joinTimeouts, silentStarts,
                   changes, delivered>>
    /\ HealthOnly

\* stop_monitoring(), lines 200-203: set the stop event and start the join
StopMonitoring ==
    /\ spc = "idle"
    /\ IF monitor_thread = 0
       THEN UNCHANGED <<monitor_stop, spc, stops>>
       ELSE /\ monitor_stop' = TRUE
            /\ spc' = "joining"
            /\ stops' = stops + 1
    /\ UNCHANGED <<conn_state, on_state_change, monitor_thread, ppc, pnew,
                   pings, starts, joinTimeouts, silentStarts, changes, delivered>>
    /\ HealthOnly

\* stop_monitoring(), lines 203-205: join(timeout=10.0) returns because the
\* prober ended, or because ten seconds passed with the prober still inside
\* a ping or a listener call; then the thread and the listener are dropped
JoinReturns ==
    /\ spc = "joining"
    /\ ppc[monitor_thread] \in {"exited", "ping", "callback", "caught"}
    /\ monitor_thread' = 0
    /\ on_state_change' = None
    /\ spc' = "idle"
    /\ joinTimeouts' = joinTimeouts + (IF IsAlive(monitor_thread) THEN 1 ELSE 0)
    /\ UNCHANGED <<conn_state, monitor_stop, ppc, pnew, pings, starts, stops,
                   silentStarts, changes, delivered>>
    /\ HealthOnly

\* _health_check_loop, line 238: _monitor_stop.wait(timeout=interval)
ProberWait(p) ==
    /\ ppc[p] = "wait"
    /\ IF monitor_stop
       THEN ppc' = [ppc EXCEPT ![p] = "exited"]
       ELSE /\ pings < MaxPings
            /\ ppc' = [ppc EXCEPT ![p] = "ping"]
    /\ UNCHANGED <<conn_state, on_state_change, monitor_stop, monitor_thread,
                   pnew, spc, pings, starts, stops, joinTimeouts, silentStarts,
                   changes, delivered>>
    /\ HealthOnly

\* lines 239-243: ping(), and the state its outcome asks for
ProberPing(p) ==
    /\ ppc[p] = "ping"
    /\ pings' = pings + 1
    /\ \E ok \in BOOLEAN :
        pnew' = [pnew EXCEPT ![p] = IF ok THEN "CONNECTED" ELSE "DISCONNECTED"]
    /\ ppc' = [ppc EXCEPT ![p] = "set"]
    /\ UNCHANGED <<conn_state, on_state_change, monitor_stop, monitor_thread,
                   spc, starts, stops, joinTimeouts, silentStarts, changes,
                   delivered>>
    /\ HealthOnly

\* _set_state, lines 223-228, under the condition's lock
ProberSetState(p) ==
    /\ ppc[p] = "set"
    /\ IF SameState(pnew[p])
       THEN /\ ppc' = [ppc EXCEPT ![p] = "wait"]
            /\ UNCHANGED <<conn_state, changes>>
       ELSE /\ conn_state' = pnew[p]
            /\ changes' = Append(changes, pnew[p])
            /\ ppc' = [ppc EXCEPT ![p] = "callback"]
    /\ UNCHANGED <<on_state_change, monitor_stop, monitor_thread, pnew, spc,
                   pings, starts, stops, joinTimeouts, silentStarts, delivered>>
    /\ wnotified' = (wnotified \/ (~SameState(pnew[p]) /\ wpc = "waiting"))
    /\ UNCHANGED <<wpc, wtarget, wtimeout, wclock, wresult, waits, wAtCall,
                   wAtReturn, wblocked>>
    /\ WaitOnly

\* mutant: what the listener raises ends the prober
AfterListenerError_Dies == "exited"

\* lines 233-234: the except clause logs, _set_state returns and the loop
\* goes back to its wait
AfterListenerError == "wait"

\* _set_state, lines 229-232, outside the lock: the listener, if any, is
\* called with new_state; it returns or raises
ProberCallback(p) ==
    /\ ppc[p] = "callback"
    /\ delivered' = IF on_state_change # None
                    THEN Append(delivered, pnew[p])
                    ELSE delivered
    /\ \/ ppc' = [ppc EXCEPT ![p] = "wait"]
       \/ /\ on_state_change # None
          /\ ppc' = [ppc EXCEPT ![p] = "caught"]
    /\ UNCHANGED <<conn_state, on_state_change, monitor_stop, monitor_thread,
                   pnew, spc, pings, starts, stops, joinTimeouts, silentStarts,
                   changes>>
    /\ HealthOnly

\* _set_state, lines 233-234: what the listener raised is caught and logged
ProberCaught(p) ==
    /\ ppc[p] = "caught"
    /\ ppc' = [ppc EXCEPT ![p] = AfterListenerError]
    /\ UNCHANGED delivered
    /\ UNCHANGED <<conn_state, on_state_change, monitor_stop, monitor_thread,
                   pnew, spc, pings, starts, stops, joinTimeouts, silentStarts,
                   changes>>
    /\ HealthOnly

\* ping() called by a user thread, lines 104-119: one RPC whose success or
\* exception becomes the returned dict; no field of the Connection is
\* written
CallerPing ==
    /\ pings < MaxPings
    /\ pings' = pings + 1
    /\ UNCHANGED <<conn_state, on_state_change, monitor_stop, monitor_thread,
                   ppc, pnew, spc, starts, stops, joinTimeouts, silentStarts,
                   changes, delivered>>
    /\ HealthOnly

NextHealth ==
    \/ \E cb \in Listeners \cup {None} : StartMonitoring(cb)
    \/ StartReturns
    \/ StopMonitoring
    \/ JoinReturns
    \/ \E p \in Probers : ProberWait(p)
    \/ \E p \in Probers : ProberPing(p)
    \/ \E p \in Probers : ProberSetState(p)
    \/ \E p \in Probers : ProberCallback(p)
    \/ \E p \in Probers : ProberCaught(p)

---------------------------------------------------------------------------
(* KachakaConnection.wait_for_state: Condition.wait_for under the state lock *)

NoTimeout == -1         \* timeout=None
WaitTimeouts == {NoTimeout, 0, MaxWaitTimeout}

\* mutant: the predicate is taken to hold whatever the state
WaitPredicate_Always(tg) == TRUE

\* lambda: self._state == target_state
WaitPredicate(tg) == conn_state = tg

InitWait ==
    /\ wpc = "idle"
    /\ wtarget = "CONNECTED"
    /\ wtimeout = NoTimeout
    /\ wclock = 0
    /\ wnotified = FALSE
    /\ wresult = FALSE
    /\ waits = 0
    /\ wAtCall = "CONNECTED"
    /\ wAtReturn = "CONNECTED"
    /\ wblocked = FALSE

\* wait_for_state(target_state, timeout), lines 215-219: take the lock and
\* test the predicate; return at once when it holds, else sleep on the
\* condition (which releases the lock)
WaitCall(tg, to) ==
    /\ wpc \in {"idle", "returned"}
    /\ waits < MaxWaits
    /\ waits' = waits + 1
    /\ wtarget' = tg
    /\ wtimeout' = to
    /\ wclock' = 0
    /\ wnotified' = FALSE
    /\ wAtCall' = conn_state
    /\ IF WaitPredicate(tg)
       THEN /\ wpc' = "returned"
            /\ wresult' = TRUE
            /\ wAtReturn' = conn_state
            /\ wblocked' = FALSE
       ELSE /\ wpc' = "waiting"
            /\ wblocked' = TRUE
            /\ UNCHANGED <<wresult, wAtReturn>>
    /\ UNCHANGED healthVars
    /\ WaitOnly

\* time passes while the caller sleeps
WaitTick ==
    /\ wpc = "waiting"
    /\ wclock < MaxWaitClock
    /\ wclock' = wclock + 1
    /\ UNCHANGED <<wpc, wtarget, wtimeout, wnotified, wresult, waits, wAtCall,
                   wAtReturn, wblocked>>
    /\ UNCHANGED healthVars
    /\ WaitOnly

\* Condition.wait returns, notified or timed out; with the lock held again
\* the predicate is tested, then the remaining time: return True, return
\* False when no time is left, or sleep again
WaitWake ==
    /\ wpc = "waiting"
    /\ wnotified \/ (wtimeout # NoTimeout /\ wclock >= wtimeout)
    /\ wnotified' = FALSE
    /\ IF WaitPredicate(wtarget)
       THEN /\ wpc' = "returned"
            /\ wresult' = TRUE
            /\ wAtReturn' = conn_state
       ELSE IF wtimeout # NoTimeout /\ wtimeout - wclock <= 0
            THEN /\ wpc' = "returned"
                 /\ wresult' = FALSE
                 /\ wAtReturn' = conn_state
            ELSE UNCHANGED <<wpc, wresult, wAtReturn>>
    /\ UNCHANGED <<wtarget, wtimeout, wclock, waits, wAtCall, wblocked>>
    /\ UNCHANGED healthVars
    /\ WaitOnly

NextWait ==
    \/ NextHealth
    \/ \E tg \in ConnectionState, to \in WaitTimeouts : WaitCall(tg, to)
    \/ WaitTick
    \/ WaitWake

---------------------------------------------------------------------------
(* error_handling.with_retry: the wrapper around one callable *)

NoDeadline == -1        \* deadline=None

RETRYABLE_CODES == {"UNAVAILABLE", "DEADLINE_EXCEEDED", "RESOURCE_EXHAUSTED"}
StatusCodes == RETRYABLE_CODES \cup {"INVALID_ARGUMENT", "NOT_FOUND"}

\* what one invocation of the callable can do: return a value, raise a
\* grpc.RpcError with a status code and details, raise another exception
ReturnValues == {[ok |-> TRUE], [ok |-> TRUE, value |-> 42]}
RpcFaults == {[kind |-> "rpc", code |-> c, details |-> "down"] : c \in StatusCodes}
OtherFaults == {[kind |-> "other", text |-> "not a gRPC error"]}
CallOutcomes ==
    {[kind |-> "return", value |-> v] : v \in ReturnValues}
        \cup RpcFaults \cup OtherFaults

NoError == [kind |-> "none"]

\* str(exc)
StrExc(e) ==
    CASE e.kind = "none"  -> "None"
      [] e.kind = "rpc"   -> "<RpcError " \o e.code \o ">"
      [] e.kind = "other" -> e.text

RECURSIVE Pow2(_)
Pow2(n) == IF n <= 0 THEN 1 ELSE 2 * Pow2(n - 1)

\* line 93: min(base_delay * (2 ** (attempt - 1)), max_delay)
Backoff(k, base, mx) == Min(base * Pow2(k - 1), mx)

\* mutant: the sleep is not clamped to the remaining time
ClampDelay_Unclamped(d, remaining) == d

\* line 98: min(delay, remaining)
ClampDelay(d, remaining) == Min(d, remaining)

\* mutant: every RPC status is retried
Retryable_Any(code) == TRUE

\* line 82: code in RETRYABLE_CODES
Retryable(code) == code \in RETRYABLE_CODES

\* mutant: one attempt too many
CountExhausted_OffByOne(k, m) == k > m

\* line 72: attempt >= max_attempts
CountExhausted(k, m) == k >= m

\* mutant: the callable's value is wrapped
Passed_Wrapped(v) == [ok |-> TRUE, value |-> v]

\* line 77: return func(*args, **kwargs)
Passed(v) == v

\* lines 115-120: all retries exhausted
Exhausted(err, k) ==
    [ok |-> FALSE, error |-> StrExc(err), retryable |-> TRUE, attempts |-> k]

\* lines 86-90
NonRetryable(e) ==
    [ok |-> FALSE, error |-> e.code \o ": " \o e.details, retryable |-> FALSE]

\* line 112
Unexpected(e) == [ok |-> FALSE, error |-> StrExc(e), retryable |-> FALSE]

NoRetryResult == [none |-> TRUE]

InitRetry ==
    /\ rpc = "idle"
    /\ max_attempts = 3
    /\ base_delay = 1
    /\ max_delay = MaxMaxDelay
    /\ retry_deadline = NoDeadline
    /\ attempt = 0
    /\ abs_deadline = NoDeadline
    /\ last_error = NoError
    /\ delay = 0
    /\ rnow = 0
    /\ rresult = NoRetryResult
    /\ outcomes = <<>>
    /\ callTimes = <<>>
    /\ sleepLog = <<>>

\* with_retry(max_attempts, base_delay, max_delay, deadline)(func)(): lines
\* 60-64
RetryInvoke(m, b, mx, d) ==
    /\ rpc = "idle"
    /\ max_attempts' = m
    /\ base_delay' = b
    /\ max_delay' = mx
    /\ retry_deadline' = d
    /\ last_error' = NoError
    /\ attempt' = 0
    /\ abs_deadline' = IF d # NoDeadline THEN rnow + d ELSE NoDeadline
    /\ rpc' = "check"
    /\ rresult' = NoRetryResult
    /\ outcomes' = <<>>
    /\ callTimes' = <<>>
    /\ sleepLog' = <<>>
    /\ UNCHANGED <<delay, rnow>>
    /\ RetryOnly

\* lines 66-75: stop, or count the next attempt
RetryCheck ==
    /\ rpc = "check"
    /\ IF \/ abs_deadline # NoDeadline /\ attempt > 0 /\ rnow >= abs_deadline
          \/ abs_deadline = NoDeadline /\ CountExhausted(attempt, max_attempts)
       THEN /\ rresult' = Exhausted(last_error, attempt)
            /\ rpc' = "done"
            /\ UNCHANGED attempt
       ELSE /\ attempt' = attempt + 1
            /\ rpc' = "call"
            /\ UNCHANGED rresult
    /\ UNCHANGED <<max_attempts, base_delay, max_delay, retry_deadline,
                   abs_deadline, last_error, delay, rnow, outcomes, callTimes,
                   sleepLog>>
    /\ RetryOnly

\* lines 76-112: one invocation of the callable, taking dt, and what follows
\* from its outcome o
RetryCall(o, dt) ==
    /\ rpc = "call"
    /\ outcomes' = Append(outcomes, o)
    /\ callTimes' = Append(callTimes, [begin |-> rnow, end |-> rnow + dt])
    /\ rnow' = rnow + dt
    /\ CASE o.kind = "return" ->
              /\ rresult' = Passed(o.value)
              /\ rpc' = "done"
              /\ UNCHANGED <<last_error, delay>>
         [] o.kind = "other" ->
              /\ rresult' = Unexpected(o)
              /\ rpc' = "done"
              /\ UNCHANGED <<last_error, delay>>
         [] o.kind = "rpc" ->
              /\ last_error' = o
              /\ IF ~Retryable(o.code)
                 THEN /\ rresult' = NonRetryable(o)
                      /\ rpc' = "done"
                      /\ UNCHANGED delay
                 ELSE LET d == Backoff(attempt, base_delay, max_delay)
                          remaining == abs_deadline - (rnow + dt)
                      IN  IF abs_deadline # NoDeadline /\ remaining <= 0
                          THEN /\ rresult' = Exhausted(o, attempt)
                               /\ rpc' = "done"
                               /\ UNCHANGED delay
                          ELSE /\ delay' = IF abs_deadline # NoDeadline
                                           THEN ClampDelay(d, remaining)
                                           ELSE d
                               /\ rpc' = "sleep"
                               /\ UNCHANGED rresult
    /\ UNCHANGED <<max_attempts, base_delay, max_delay, retry_deadline,
                   attempt, abs_deadline, sleepLog>>
    /\ RetryOnly

\* line 109: time.sleep(delay)
RetrySleep ==
    /\ rpc = "sleep"
    /\ sleepLog' = Append(sleepLog,
                          [after |-> Len(outcomes), from |-> rnow, for |-> delay])
    /\ rnow' = rnow + delay
    /\ rpc' = "check"
    /\ UNCHANGED <<max_attempts, base_delay, max_delay, retry_deadline,
                   attempt, abs_deadline, last_error, delay, rresult, outcomes,
                   callTimes>>
    /\ RetryOnly

NextRetry ==
    \/ \E m \in 0..MaxAttempts, b \in 1..MaxBaseDelay, mx \in 2..MaxMaxDelay,
          d \in {NoDeadline, 0, MaxDeadline} : RetryInvoke(m, b, mx, d)
    \/ RetryCheck
    \/ \E o \in CallOutcomes, dt \in 0..MaxCallTicks : RetryCall(o, dt)
    \/ RetrySleep

---------------------------------------------------------------------------
(* RobotController: the state object, the sampler thread and the readers *)

\* what the robot answers to the sampler's reads
Poses == {[x |-> 1, y |-> 2, theta |-> 3]}
BatteryReadings == {857}            \* battery_pct as a float, in tenths
ScribbleValue == 99                 \* what a reader writes into its snapshot

\* int(battery_pct)
ToInt(tenths) == tenths \div 10

\* RobotState(): the dataclass defaults
NewRobotState ==
    [pose_x |-> 0, pose_y |-> 0, pose_theta |-> 0,
     is_command_running |-> FALSE, last_updated |-> 0, battery_pct |-> 0]

NoPose == [x |-> 0, y |-> 0, theta |-> 0]

\* the whole state object as a reader sees it
LiveState ==
    [pose_x |-> robot_state.pose_x, pose_y |-> robot_state.pose_y,
     pose_theta |-> robot_state.pose_theta,
     is_command_running |-> robot_state.is_command_running,
     last_updated |-> robot_state.last_updated,
     battery_pct |-> robot_state.battery_pct,
     moving_shelf_id |-> moving_shelf_id, shelf_dropped |-> shelf_dropped]

\* mutant: the state property hands out the live object
Snapshot_Alias(st) == [ref |-> "live"]

\* copy.copy(self._state): a new object with the same field values
Snapshot(st) == [ref |-> "copy", val |-> st]

\* the fields a holder of the object sn reads now
Deref(sn) == IF sn.ref = "live" THEN LiveState ELSE sn.val

\* the five fields the fast cycle writes
FastFields(st) ==
    <<st.pose_x, st.pose_y, st.pose_theta, st.is_command_running,
      st.last_updated>>

\* what the running iteration writes, and what it found
CycleFields == <<pose.x, pose.y, pose.theta, is_running, s_now>>

\* mutant: a failed fast cycle ends the iteration
AfterFastError_Skip == "wait"

\* lines 210-214: after the except of the fast cycle comes the slow cycle
AfterFastError == "slow"

\* self._thread is not None and self._thread.is_alive()
SamplerAlive == spos \notin {"unborn", "exited"}

NoIter ==
    [before |-> NewRobotState, fastFailed |-> FALSE, due |-> FALSE,
     batteryTried |-> FALSE, batteryFailed |-> FALSE, battery |-> 0]

InitSampler ==
    /\ robot_state = NewRobotState
    /\ state_lock = "free"
    /\ stop_event = FALSE
    /\ spos = "unborn"
    /\ s_now = 0
    /\ pose = NoPose
    /\ is_running = FALSE
    /\ last_slow = 0
    /\ stime = StartTime
    /\ snaps = <<>>
    /\ iter = NoIter
    /\ lastBatteryOk = 0
    /\ taken = <<>>
    /\ mutated = {}
    /\ caller = "idle"

\* start() with no thread alive, lines 168-172, and the thread's first
\* lines 194-195: the stop event is cleared and a new thread starts
ControllerStart ==
    /\ caller # "joining"
    /\ ~SamplerAlive
    /\ stop_event' = FALSE
    /\ spos' = "top"
    /\ last_slow' = 0
    /\ lastBatteryOk' = 0
    /\ caller' = "started"
    /\ UNCHANGED <<robot_state, state_lock, s_now, pose, is_running, stime,
                   snaps, iter, taken, mutated>>
    /\ SamplerOnly

\* start() with the thread alive, lines 168-169: it returns at once
ControllerStartAlive ==
    /\ caller # "joining"
    /\ SamplerAlive
    /\ caller' = "started"
    /\ UNCHANGED <<robot_state, state_lock, stop_event, spos, s_now, pose,
                   is_running, last_slow, stime, snaps, iter, lastBatteryOk,
                   taken, mutated>>
    /\ SamplerOnly

\* stop() with the thread alive, lines 181-183: the stop event is set and
\* the join starts (with no thread alive stop() returns at line 182)
ControllerStop ==
    /\ caller # "joining"
    /\ SamplerAlive
    /\ stop_event' = TRUE
    /\ caller' = "joining"
    /\ UNCHANGED <<robot_state, state_lock, spos, s_now, pose, is_running,
                   last_slow, stime, snaps, iter, lastBatteryOk, taken, mutated>>
    /\ SamplerOnly

\* the sampler is inside get_robot_pose, is_command_running or
\* get_battery_info
SamplerInRpc ==
    \/ spos \in {"pose", "running"}
    \/ spos = "slow" /\ s_now - last_slow >= SlowInterval

\* stop(), lines 183-187: join(timeout=fast_interval * 3) returns because
\* the thread ended, or because the time passed with the thread still
\* inside an RPC; the thread handle is kept
ControllerJoin ==
    /\ caller = "joining"
    /\ ~SamplerAlive \/ SamplerInRpc
    /\ caller' = "idle"
    /\ UNCHANGED <<robot_state, state_lock, stop_event, spos, s_now, pose,
                   is_running, last_slow, stime, snaps, iter, lastBatteryOk,
                   taken, mutated>>
    /\ SamplerOnly

\* lines 197-198: leave when stop is signalled, else read the clock
SamplerTop ==
    /\ spos = "top"
    /\ IF stop_event
       THEN /\ spos' = "exited"
            /\ UNCHANGED <<s_now, iter>>
       ELSE /\ spos' = "pose"
            /\ s_now' = stime
            /\ iter' = [NoIter EXCEPT !.before = robot_state,
                                      !.due = (stime - lastBatteryOk
                                                  >= SlowInterval)]
    /\ UNCHANGED <<robot_state, state_lock, stop_event, pose, is_running,
                   last_slow, stime, snaps, lastBatteryOk, taken,
                   mutated>>
    /\ UNCHANGED caller
    /\ SamplerOnly

\* lines 202-203: get_robot_pose(), is_command_running(); either may raise
SamplerFastRead ==
    /\ \/ /\ spos = "pose"
          /\ \/ \E v \in Poses : pose' = v /\ spos' = "running"
                                  /\ UNCHANGED iter
             \/ /\ spos' = AfterFastError
                /\ iter' = [iter EXCEPT !.fastFailed = TRUE]
                /\ UNCHANGED pose
          /\ UNCHANGED is_running
       \/ /\ spos = "running"
          /\ \/ \E r \in BOOLEAN :
                   /\ is_running' = r
                   /\ spos' = "lock"
                   /\ UNCHANGED iter
             \/ /\ spos' = AfterFastError
                /\ iter' = [iter EXCEPT !.fastFailed = TRUE]
                /\ UNCHANGED is_running
          /\ UNCHANGED pose
    /\ UNCHANGED <<robot_state, state_lock, stop_event, s_now, last_slow,
                   stime, snaps, lastBatteryOk, taken, mutated>>
    /\ UNCHANGED caller
    /\ SamplerOnly

\* lines 204-209: with self._state_lock, one assignment after the other
SamplerFastWrite ==
    /\ CASE spos = "lock" ->
              /\ state_lock = "free"
              /\ state_lock' = "sampler"
              /\ spos' = "set_x"
              /\ UNCHANGED robot_state
         [] spos = "set_x" ->
              /\ robot_state' = [robot_state EXCEPT !.pose_x = pose.x]
              /\ spos' = "set_y"
              /\ UNCHANGED state_lock
         [] spos = "set_y" ->
              /\ robot_state' = [robot_state EXCEPT !.pose_y = pose.y]
              /\ spos' = "set_theta"
              /\ UNCHANGED state_lock
         [] spos = "set_theta" ->
              /\ robot_state' = [robot_state EXCEPT !.pose_theta = pose.theta]
              /\ spos' = "set_running"
              /\ UNCHANGED state_lock
         [] spos = "set_running" ->
              /\ robot_state' =
                     [robot_state EXCEPT !.is_command_running = is_running]
              /\ spos' = "set_updated"
              /\ UNCHANGED state_lock
         [] spos = "set_updated" ->
              /\ robot_state' = [robot_state EXCEPT !.last_updated = s_now]
              /\ state_lock' = "free"
              /\ spos' = "slow"
         [] OTHER -> FALSE
    /\ UNCHANGED <<stop_event, s_now, pose, is_running, last_slow, stime,
                   snaps, iter, lastBatteryOk, taken, mutated>>
    /\ UNCHANGED caller
    /\ SamplerOnly

\* lines 214-216 and 220-221: when the slow cycle is due, get_battery_info(),
\* which may raise
SamplerSlow ==
    /\ spos = "slow"
    /\ IF s_now - last_slow >= SlowInterval
       THEN \/ \E b \in BatteryReadings :
                 /\ iter' = [iter EXCEPT !.batteryTried = TRUE, !.battery = b]
                 /\ spos' = "set_battery"
            \/ /\ iter' = [iter EXCEPT !.batteryTried = TRUE,
                                        !.batteryFailed = TRUE]
               /\ spos' = "wait"
       ELSE /\ spos' = "wait"
            /\ UNCHANGED iter
    /\ UNCHANGED <<robot_state, state_lock, stop_event, s_now, pose,
                   is_running, last_slow, stime, snaps, lastBatteryOk,
                   taken, mutated>>
    /\ UNCHANGED caller
    /\ SamplerOnly

\* lines 217-219: the battery value is stored under the lock
SamplerBatteryWrite ==
    /\ spos = "set_battery"
    /\ state_lock = "free"
    /\ robot_state' = [robot_state EXCEPT !.battery_pct = ToInt(iter.battery)]
    /\ last_slow' = s_now
    /\ lastBatteryOk' = s_now
    /\ spos' = "wait"
    /\ UNCHANGED <<state_lock, stop_event, s_now, pose, is_running, stime,
                   snaps, iter, taken, mutated>>
    /\ UNCHANGED caller
    /\ SamplerOnly

\* line 223: self._stop_event.wait(self._fast_interval)
SamplerWait ==
    /\ spos = "wait"
    /\ IF stop_event
       THEN UNCHANGED stime
       ELSE /\ stime < StartTime + MaxCycles * FastInterval
            /\ stime' = stime + FastInterval
    /\ spos' = "top"
    /\ UNCHANGED <<robot_state, state_lock, stop_event, s_now, pose,
                   is_running, last_slow, snaps, iter, lastBatteryOk, taken, mutated>>
    /\ UNCHANGED caller
    /\ SamplerOnly

\* the state property, lines 143-144: copy the state under the lock
ReadState ==
    /\ Len(snaps) < MaxSnaps
    /\ state_lock = "free"
    /\ snaps' = Append(snaps, Snapshot(LiveState))
    /\ taken' = Append(taken,
                 [val |-> LiveState,
                  whole |-> FastFields(robot_state) \in
                               {FastFields(iter.before), CycleFields}])
    /\ UNCHANGED <<robot_state, state_lock, stop_event, spos, s_now, pose,
                   is_running, last_slow, stime, iter, lastBatteryOk, mutated>>
    /\ UNCHANGED caller
    /\ SamplerOnly

\* a reader assigns to a field of the object it was handed
MutateSnapshot(i) ==
    /\ i \in 1..Len(snaps)
    /\ i \notin mutated
    /\ mutated' = mutated \cup {i}
    /\ IF snaps[i].ref = "live"
       THEN /\ robot_state' = [robot_state EXCEPT !.pose_x = ScribbleValue]
            /\ UNCHANGED snaps
       ELSE /\ snaps' = [snaps EXCEPT ![i].val.pose_x = ScribbleValue]
            /\ UNCHANGED robot_state
    /\ UNCHANGED <<state_lock, stop_event, spos, s_now, pose, is_running,
                   last_slow, stime, iter, lastBatteryOk, taken>>
    /\ UNCHANGED caller
    /\ SamplerOnly

\* a command executor stores the moving-shelf id under the lock (lines
\* 344-346 and 491-493)
ExecutorShelfWrite(mid) ==
    /\ state_lock = "free"
    /\ moving_shelf_id # mid
    /\ moving_shelf_id' = mid
    /\ UNCHANGED <<execLocals, monitoring_shelf, shelf_dropped,
                   on_shelf_dropped, metricVars, histVars, startVars,
                   countVars>>
    /\ ExecOnly

NextSampler ==
    \/ ControllerStart
    \/ ControllerStop
    \/ ControllerJoin
    \/ SamplerTop
    \/ SamplerFastRead
    \/ SamplerFastWrite
    \/ SamplerSlow
    \/ SamplerBatteryWrite
    \/ SamplerWait
    \/ ReadState
    \/ \E i \in 1..MaxSnaps : MutateSnapshot(i)
    \/ \E mid \in ShelfIds \cup {None} : ExecutorShelfWrite(mid)

\* the sampler thread and a caller that starts and stops it in any order
NextLifecycle ==
    \/ ControllerStart
    \/ ControllerStartAlive
    \/ ControllerStop
    \/ ControllerJoin
    \/ SamplerTop
    \/ SamplerFastRead
    \/ SamplerFastWrite
    \/ SamplerSlow
    \/ SamplerBatteryWrite
    \/ SamplerWait

---------------------------------------------------------------------------
(* KachakaConnection: ensure_resolver, resolve_shelf, resolve_location *)

Callers == 1..NumCallers

\* names and ids of the shelves and locations the server may report: a name
\* may be spelled like an id, and an id may be empty
ShelfNames == {"A", "S2"}
ShelfIdValues == {"", "S1", "S2"}
LocationNames == {"K", "L2"}
LocationIdValues == {"L1", "L2"}
Unknown == "unknown"

ListsOf(names, ids) ==
    UNION {[1..n -> [name : names, id : ids]] : n \in 0..MaxItems}

ShelfLists == ListsOf(ShelfNames, ShelfIdValues)
LocationLists == ListsOf(LocationNames, LocationIdValues)

RECURSIVE DictOf(_)
\* {x.name: x.id for x in list}: a later entry replaces an earlier one of the
\* same name
DictOf(list) ==
    IF list = <<>> THEN <<>>
    ELSE LET n == Len(list)
             front == DictOf(SubSeq(list, 1, n - 1))
         IN  [k \in (DOMAIN front \ {list[n].name}) \cup {list[n].name} |->
                 IF k = list[n].name THEN list[n].id ELSE front[k]]

\* set(d.values())
ValuesOf(d) == {d[k] : k \in DOMAIN d}

\* mutant: the name map is consulted before the id set
ResolveShelf_NameFirst(name_or_id) ==
    IF name_or_id \in DOMAIN shelves /\ shelves[name_or_id] # ""
    THEN shelves[name_or_id]
    ELSE name_or_id

\* resolve_shelf: a known id is returned as it is, a known name gives its
\* (non-empty) id, anything else is returned unchanged
ResolveShelf(name_or_id) ==
    IF name_or_id \in shelf_ids THEN name_or_id
    ELSE IF name_or_id \in DOMAIN shelves /\ shelves[name_or_id] # ""
         THEN shelves[name_or_id]
         ELSE name_or_id

\* resolve_location
ResolveLocation(name_or_id) ==
    IF name_or_id \in location_ids THEN name_or_id
    ELSE IF name_or_id \in DOMAIN locations /\ locations[name_or_id] # ""
         THEN locations[name_or_id]
         ELSE name_or_id

NoMaps == [shelves |-> <<>>, shelf_ids |-> {}, locations |-> <<>>,
           location_ids |-> {}]
CurrentMaps == [shelves |-> shelves, shelf_ids |-> shelf_ids,
                locations |-> locations, location_ids |-> location_ids]
NoResolve == [kind |-> "none", arg |-> "", out |-> ""]

InitResolver ==
    /\ resolver_ready = FALSE
    /\ shelves = <<>>
    /\ shelf_ids = {}
    /\ locations = <<>>
    /\ location_ids = {}
    /\ srvShelves \in ShelfLists
    /\ srvLocations \in LocationLists
    /\ Len(srvShelves) + Len(srvLocations) <= MaxItems
    /\ epc = [c \in Callers |-> "idle"]
    /\ etmp = [c \in Callers |-> {}]
    /\ eret = [c \in Callers |-> "none"]
    /\ ensures = 0
    /\ srvChanges = 0
    /\ fetchedShelves = <<>>
    /\ fetchedLocations = <<>>
    /\ overlap = FALSE
    /\ readyMaps = NoMaps
    /\ lateRpc = FALSE
    /\ resolved = NoResolve

\* a Connection whose robot has neither shelves nor locations
InitResolverEmpty ==
    /\ InitResolver
    /\ srvShelves = <<>>
    /\ srvLocations = <<>>

\* the resolver variables an ensure_resolver step does not mention
ResolverRest ==
    UNCHANGED <<srvShelves, srvLocations, srvChanges, resolved>>

\* ensure_resolver is entered
ResolverCall(c) ==
    /\ epc[c] = "idle"
    /\ ensures < MaxEnsures
    /\ ensures' = ensures + 1
    /\ epc' = [epc EXCEPT ![c] = "check"]
    /\ overlap' = (overlap \/ \E d \in Callers \ {c} : epc[d] # "idle")
    /\ UNCHANGED <<resolver_ready, shelves, shelf_ids, locations,
                   location_ids, etmp, eret, fetchedShelves, fetchedLocations,
                   readyMaps, lateRpc>>
    /\ ResolverRest
    /\ ResolverOnly

\* if self._resolver_ready: return True
ResolverCheck(c) ==
    /\ epc[c] = "check"
    /\ IF resolver_ready
       THEN /\ epc' = [epc EXCEPT ![c] = "idle"]
            /\ eret' = [eret EXCEPT ![c] = "True"]
       ELSE /\ epc' = [epc EXCEPT ![c] = "shelves"]
            /\ UNCHANGED eret
    /\ UNCHANGED <<resolver_ready, shelves, shelf_ids, locations,
                   location_ids, etmp, ensures, fetchedShelves,
                   fetchedLocations, overlap, readyMaps, lateRpc>>
    /\ ResolverRest
    /\ ResolverOnly

\* a fetch raised: the except branch returns False
ResolverFailed(c) ==
    /\ epc' = [epc EXCEPT ![c] = "idle"]
    /\ eret' = [eret EXCEPT ![c] = "False"]

\* self._shelves = {s.name: s.id for s in sdk.get_shelves()}, or the RPC
\* raises
ResolverShelves(c) ==
    /\ epc[c] = "shelves"
    /\ lateRpc' = (lateRpc \/ resolver_ready)
    /\ \/ /\ shelves' = DictOf(srvShelves)
          /\ fetchedShelves' = srvShelves
          /\ epc' = [epc EXCEPT ![c] = "shelf_ids"]
          /\ UNCHANGED eret
       \/ /\ ResolverFailed(c)
          /\ UNCHANGED <<shelves, fetchedShelves>>
    /\ UNCHANGED <<resolver_ready, shelf_ids, locations, location_ids, etmp,
                   ensures, fetchedLocations, overlap, readyMaps>>
    /\ ResolverRest
    /\ ResolverOnly

\* self._shelf_ids = set(self._shelves.values()): the set is built, then stored
ResolverShelfIds(c) ==
    /\ \/ /\ epc[c] = "shelf_ids"
          /\ etmp' = [etmp EXCEPT ![c] = ValuesOf(shelves)]
          /\ epc' = [epc EXCEPT ![c] = "store_shelf_ids"]
          /\ UNCHANGED shelf_ids
       \/ /\ epc[c] = "store_shelf_ids"
          /\ shelf_ids' = etmp[c]
          /\ etmp' = [etmp EXCEPT ![c] = {}]
          /\ epc' = [epc EXCEPT ![c] = "locations"]
    /\ UNCHANGED <<resolver_ready, shelves, locations, location_ids, eret,
                   ensures, fetchedShelves, fetchedLocations, overlap,
                   readyMaps, lateRpc>>
    /\ ResolverRest
    /\ ResolverOnly

\* self._locations = {loc.name: loc.id for loc in sdk.get_locations()}, or
\* the RPC raises
ResolverLocations(c) ==
    /\ epc[c] = "locations"
    /\ lateRpc' = (lateRpc \/ resolver_ready)
    /\ \/ /\ locations' = DictOf(srvLocations)
          /\ fetchedLocations' = srvLocations
          /\ epc' = [epc EXCEPT ![c] = "location_ids"]
          /\ UNCHANGED eret
       \/ /\ ResolverFailed(c)
          /\ UNCHANGED <<locations, fetchedLocations>>
    /\ UNCHANGED <<resolver_ready, shelves, shelf_ids, location_ids, etmp,
                   ensures, fetchedShelves, overlap, readyMaps>>
    /\ ResolverRest
    /\ ResolverOnly

\* self._location_ids = set(self._locations.values())
ResolverLocationIds(c) ==
    /\ \/ /\ epc[c] = "location_ids"
          /\ etmp' = [etmp EXCEPT ![c] = ValuesOf(locations)]
          /\ epc' = [epc EXCEPT ![c] = "store_location_ids"]
          /\ UNCHANGED location_ids
       \/ /\ epc[c] = "store_location_ids"
          /\ location_ids' = etmp[c]
          /\ etmp' = [etmp EXCEPT ![c] = {}]
          /\ epc' = [epc EXCEPT ![c] = "ready"]
    /\ UNCHANGED <<resolver_ready, shelves, shelf_ids, locations, eret,
                   ensures, fetchedShelves, fetchedLocations, overlap,
                   readyMaps, lateRpc>>
    /\ ResolverRest
    /\ ResolverOnly

\* self._resolver_ready = True; return True
ResolverReady(c) ==
    /\ epc[c] = "ready"
    /\ resolver_ready' = TRUE
    /\ readyMaps' = IF resolver_ready THEN readyMaps ELSE CurrentMaps
    /\ epc' = [epc EXCEPT ![c] = "idle"]
    /\ eret' = [eret EXCEPT ![c] = "True"]
    /\ UNCHANGED <<shelves, shelf_ids, locations, location_ids, etmp, ensures,
                   fetchedShelves, fetchedLocations, overlap, lateRpc>>
    /\ ResolverRest
    /\ ResolverOnly

\* the robot's shelf list changes: the shelves are removed
ServerChange ==
    /\ srvChanges < MaxSrvChanges
    /\ srvShelves # <<>>
    /\ srvChanges' = srvChanges + 1
    /\ srvShelves' = <<>>
    /\ UNCHANGED <<resolver_ready, shelves, shelf_ids, locations,
                   location_ids, srvLocations, epc, etmp, eret, ensures,
                   fetchedShelves, fetchedLocations, overlap, readyMaps,
                   lateRpc, resolved>>
    /\ ResolverOnly

\* resolve_shelf(x) or resolve_location(x), called between ensure_resolver
\* calls once the resolver is ready
ResolveCall(kind, x) ==
    /\ \A c \in Callers : epc[c] = "idle"
    /\ resolver_ready
    /\ resolved = NoResolve
    /\ x \in (IF kind = "shelf" THEN ShelfNames \cup ShelfIdValues
              ELSE LocationNames \cup LocationIdValues) \cup {Unknown}
    /\ resolved' = [kind |-> kind, arg |-> x,
                    out |-> IF kind = "shelf" THEN ResolveShelf(x)
                            ELSE ResolveLocation(x)]
    /\ UNCHANGED <<resolver_ready, shelves, shelf_ids, locations,
                   location_ids, srvShelves, srvLocations, epc, etmp, eret,
                   ensures, srvChanges, fetchedShelves, fetchedLocations,
                   overlap, readyMaps, lateRpc>>
    /\ ResolverOnly

ResolveInputs ==
    ShelfNames \cup ShelfIdValues \cup LocationNames \cup LocationIdValues
    \cup {Unknown}

NextResolver ==
    \/ \E c \in Callers : ResolverCall(c)
    \/ \E c \in Callers : ResolverCheck(c)
    \/ \E c \in Callers : ResolverShelves(c)
    \/ \E c \in Callers : ResolverShelfIds(c)
    \/ \E c \in Callers : ResolverLocations(c)
    \/ \E c \in Callers : ResolverLocationIds(c)
    \/ \E c \in Callers : ResolverReady(c)
    \/ ServerChange
    \/ \E kind \in {"shelf", "location"}, x \in ResolveInputs :
          ResolveCall(kind, x)

---------------------------------------------------------------------------
(* CameraStreamer: _run, stats, notify_state_change *)

NoTime == -1            \* a time field that is None
NoLatency == -99999     \* recovery_latency_ms that is None
NoFrame == [ok |-> FALSE, id |-> 0, image |-> "none", objects |-> "absent"]
NoStats == [total_frames |-> -1, dropped |-> -1,
            drop_rate_pct |-> [num |-> 0, den |-> 1]]

\* what get_detections() gives: a non-empty list, an empty list, ok = False
Detections == {"objs", "empty"}
NoObjects == "None"

\* mutant: the rate is taken over the frames that were not dropped
DropRate_OverCaptured(d, t) ==
    IF t - d > 0 THEN [num |-> d * 100, den |-> t - d]
    ELSE [num |-> 0, den |-> 1]

\* (dropped / total * 100.0) if total > 0 else 0.0, as an exact fraction
DropRate(d, t) ==
    IF t > 0 THEN [num |-> d * 100, den |-> t] ELSE [num |-> 0, den |-> 1]

\* mutant: a detection error is taken for a capture error
AfterDetectError_Drop == "drop"

\* lines 183-188: the inner except only logs; the annotation test is next
AfterDetectError == "annotate"

\* what is remembered of a tick when it starts
NoTick ==
    [frame |-> NoFrame, detections |-> NoObjects, dropped |-> 0,
     calls |-> 0, captureFailed |-> FALSE, detectFailed |-> FALSE,
     annotateFailed |-> FALSE, nowRead |-> FALSE]

CamAlive == cpos \notin {"unborn", "exited"}

InitCamera ==
    /\ detect \in BOOLEAN
    /\ annotate \in BOOLEAN
    /\ annotate => detect
    /\ on_frame \in BOOLEAN
    /\ cam_stop_event = FALSE
    /\ total_frames = 0
    /\ dropped = 0
    /\ latest_frame = NoFrame
    /\ latest_detections = NoObjects
    /\ last_success_time = NoTime
    /\ longest_gap_s = 0
    /\ reconnected_at = NoTime
    /\ recovery_latency_ms = NoLatency
    /\ cpos = "unborn"
    /\ img = 0
    /\ det_objects = NoObjects
    /\ b64 = "none"
    /\ c_now = 0
    /\ ctime = 0
    /\ stats_pc = "idle"
    /\ stats_total = 0
    /\ stats_out = NoStats
    /\ attempts = 0
    /\ captured = 0
    /\ tick = NoTick
    /\ frameCalls = <<>>
    /\ notifies = 0
    /\ connectedAt = NoTime
    /\ latencyLog = <<>>

\* a streamer without detection and without callback, never started
InitCameraPlain ==
    /\ InitCamera
    /\ ~detect
    /\ ~annotate
    /\ ~on_frame

cameraConfig == <<detect, annotate, on_frame>>
cameraFields == <<total_frames, dropped, latest_frame, latest_detections,
                  last_success_time, longest_gap_s, reconnected_at,
                  recovery_latency_ms>>
cameraLocals == <<img, det_objects, b64, c_now>>
cameraStats == <<stats_pc, stats_total, stats_out>>
cameraHist == <<attempts, captured, tick, frameCalls, notifies, connectedAt,
                latencyLog>>

\* start(): no-op when the thread is alive
CameraStart ==
    /\ ~CamAlive
    /\ cam_stop_event' = FALSE
    /\ cpos' = "top"
    /\ UNCHANGED <<cameraConfig, cameraFields, cameraLocals, ctime,
                   cameraStats, cameraHist>>
    /\ CameraOnly

\* stop(): signal the thread
CameraStop ==
    /\ CamAlive
    /\ ~cam_stop_event
    /\ cam_stop_event' = TRUE
    /\ UNCHANGED <<cameraConfig, cameraFields, cameraLocals, cpos, ctime,
                   cameraStats, cameraHist>>
    /\ CameraOnly

\* time passes
CameraClock ==
    /\ ctime < MaxCamClock
    /\ ctime' = ctime + 1
    /\ UNCHANGED <<cameraConfig, cameraFields, cameraLocals, cam_stop_event,
                   cpos, cameraStats, cameraHist>>
    /\ CameraOnly

\* lines 174-175: the loop test and self._total_frames += 1
CameraTop ==
    /\ cpos = "top"
    /\ IF cam_stop_event
       THEN /\ cpos' = "exited"
            /\ UNCHANGED <<total_frames, tick>>
       ELSE /\ total_frames < MaxFrames
            /\ total_frames' = total_frames + 1
            /\ tick' = [NoTick EXCEPT !.frame = latest_frame,
                                      !.detections = latest_detections,
                                      !.dropped = dropped,
                                      !.calls = Len(frameCalls)]
            /\ cpos' = "capture"
    /\ UNCHANGED <<cameraConfig, cam_stop_event, dropped, latest_frame,
                   latest_detections, last_success_time, longest_gap_s,
                   reconnected_at, recovery_latency_ms, cameraLocals, ctime,
                   cameraStats, attempts, captured, frameCalls, notifies,
                   connectedAt, latencyLog>>
    /\ CameraOnly

\* lines 177-178: capture_fn() and the base64 encoding, or an exception
CameraCapture ==
    /\ cpos = "capture"
    /\ attempts' = attempts + 1
    /\ \/ /\ img' = total_frames
          /\ b64' = "raw"
          /\ det_objects' = NoObjects
          /\ cpos' = "detect"
          /\ UNCHANGED tick
       \/ /\ cpos' = "drop"
          /\ tick' = [tick EXCEPT !.captureFailed = TRUE]
          /\ UNCHANGED <<img, b64, det_objects>>
    /\ UNCHANGED <<cameraConfig, cam_stop_event, cameraFields, c_now, ctime,
                   cameraStats, captured, frameCalls, notifies, connectedAt,
                   latencyLog>>
    /\ CameraOnly

\* lines 181-188: get_detections() when detection is on
CameraDetect ==
    /\ cpos = "detect"
    /\ IF detect
       THEN \/ \E d \in Detections :
                 /\ det_objects' = d
                 /\ cpos' = "annotate"
                 /\ UNCHANGED tick
            \/ \* ok is False
               /\ cpos' = "annotate"
               /\ UNCHANGED <<det_objects, tick>>
            \/ \* get_detections() raised
               /\ cpos' = AfterDetectError
               /\ tick' = [tick EXCEPT !.detectFailed = TRUE]
               /\ UNCHANGED det_objects
       ELSE /\ cpos' = "annotate"
            /\ UNCHANGED <<det_objects, tick>>
    /\ UNCHANGED <<cameraConfig, cam_stop_event, cameraFields, img, b64,
                   c_now, ctime, cameraStats, attempts, captured, frameCalls,
                   notifies, connectedAt, latencyLog>>
    /\ CameraOnly

\* lines 191-196: annotate_frame() when annotation is on and there are objects
CameraAnnotate ==
    /\ cpos = "annotate"
    /\ cpos' = "publish"
    /\ IF annotate /\ det_objects = "objs"
       THEN \/ /\ b64' = "annotated"
               /\ UNCHANGED tick
            \/ /\ tick' = [tick EXCEPT !.annotateFailed = TRUE]
               /\ UNCHANGED b64
       ELSE UNCHANGED <<b64, tick>>
    /\ UNCHANGED <<cameraConfig, cam_stop_event, cameraFields, img,
                   det_objects, c_now, ctime, cameraStats, attempts, captured,
                   frameCalls, notifies, connectedAt, latencyLog>>
    /\ CameraOnly

\* the frame dict of lines 198-207
Frame ==
    [ok |-> TRUE, id |-> img, image |-> b64,
     objects |-> IF det_objects # NoObjects THEN det_objects ELSE "absent"]

\* lines 209-219: store the frame (and the detections), call on_frame, whose
\* exception is caught and changes nothing
CameraPublish ==
    /\ cpos = "publish"
    /\ latest_frame' = Frame
    /\ latest_detections' =
          IF det_objects # NoObjects THEN det_objects ELSE latest_detections
    /\ frameCalls' = IF on_frame THEN Append(frameCalls, Frame) ELSE frameCalls
    /\ captured' = captured + 1
    /\ cpos' = "metrics"
    /\ UNCHANGED <<cameraConfig, cam_stop_event, total_frames, dropped,
                   last_success_time, longest_gap_s, reconnected_at,
                   recovery_latency_ms, cameraLocals, ctime, cameraStats,
                   attempts, tick, notifies, connectedAt, latencyLog>>
    /\ CameraOnly

\* lines 222-232: now and the longest gap; the test of the reconnect mark;
\* the recovery latency, which reads the mark again; last_success_time
CameraMetrics ==
    /\ \/ /\ cpos = "metrics"
          /\ c_now' = ctime
          /\ longest_gap_s' =
                IF last_success_time # NoTime /\
                   ctime - last_success_time > longest_gap_s
                THEN ctime - last_success_time ELSE longest_gap_s
          /\ tick' = [tick EXCEPT !.nowRead = TRUE]
          /\ cpos' = "rec_test"
          /\ UNCHANGED <<recovery_latency_ms, reconnected_at,
                         last_success_time, latencyLog>>
       \/ /\ cpos = "rec_test"
          /\ cpos' = IF reconnected_at # NoTime /\
                        recovery_latency_ms = NoLatency
                     THEN "latency" ELSE "success"
          /\ UNCHANGED <<c_now, longest_gap_s, recovery_latency_ms,
                         reconnected_at, last_success_time, tick, latencyLog>>
       \/ /\ cpos = "latency"
          /\ recovery_latency_ms' = (c_now - reconnected_at) * 1000
          /\ latencyLog' =
                Append(latencyLog, (c_now - reconnected_at) * 1000)
          /\ reconnected_at' = NoTime
          /\ cpos' = "success"
          /\ UNCHANGED <<c_now, longest_gap_s, last_success_time, tick>>
       \/ /\ cpos = "success"
          /\ last_success_time' = c_now
          /\ cpos' = "wait"
          /\ UNCHANGED <<c_now, longest_gap_s, recovery_latency_ms,
                         reconnected_at, tick, latencyLog>>
    /\ UNCHANGED <<cameraConfig, cam_stop_event, total_frames, dropped,
                   latest_frame, latest_detections, img, det_objects, b64,
                   ctime, cameraStats, attempts, captured, frameCalls,
                   notifies, connectedAt>>
    /\ CameraOnly

\* lines 234-241: the outer except
CameraDrop ==
    /\ cpos = "drop"
    /\ dropped' = dropped + 1
    /\ cpos' = "wait"
    /\ UNCHANGED <<cameraConfig, cam_stop_event, total_frames, latest_frame,
                   latest_detections, last_success_time, longest_gap_s,
                   reconnected_at, recovery_latency_ms, cameraLocals, ctime,
                   cameraStats, cameraHist>>
    /\ CameraOnly

\* line 244: self._stop_event.wait(self._interval)
CameraWait ==
    /\ cpos = "wait"
    /\ cpos' = "top"
    /\ UNCHANGED <<cameraConfig, cam_stop_event, cameraFields, cameraLocals,
                   ctime, cameraStats, cameraHist>>
    /\ CameraOnly

\* the stats property: total is read, then dropped, then the dict is built
CameraStats ==
    /\ \/ /\ stats_pc = "idle"
          /\ stats_out = NoStats
          /\ stats_total' = total_frames
          /\ stats_pc' = "dropped"
          /\ UNCHANGED stats_out
       \/ /\ stats_pc = "dropped"
          /\ stats_out' = [total_frames |-> stats_total, dropped |-> dropped,
                           drop_rate_pct |-> DropRate(dropped, stats_total)]
          /\ stats_pc' = "idle"
          /\ UNCHANGED stats_total
    /\ UNCHANGED <<cameraConfig, cam_stop_event, cameraFields, cameraLocals,
                   cpos, ctime, cameraHist>>
    /\ CameraOnly

\* notify_state_change(state)
NotifyStateChange(st) ==
    /\ notifies < MaxNotifies
    /\ notifies' = notifies + 1
    /\ IF st = "CONNECTED"
       THEN /\ reconnected_at' = ctime
            /\ connectedAt' = ctime
       ELSE UNCHANGED <<reconnected_at, connectedAt>>
    /\ UNCHANGED <<cameraConfig, cam_stop_event, total_frames, dropped,
                   latest_frame, latest_detections, last_success_time,
                   longest_gap_s, recovery_latency_ms, cameraLocals, cpos,
                   ctime, cameraStats, attempts, captured, tick, frameCalls,
                   latencyLog>>
    /\ CameraOnly

NextCamera ==
    \/ CameraStart
    \/ CameraStop
    \/ CameraClock
    \/ CameraTop
    \/ CameraCapture
    \/ CameraDetect
    \/ CameraAnnotate
    \/ CameraPublish
    \/ CameraMetrics
    \/ CameraDrop
    \/ CameraWait
    \/ CameraStats
    \/ \E st \in {"CONNECTED", "DISCONNECTED"} : NotifyStateChange(st)

---------------------------------------------------------------------------
(* mcp_server.emergency_stop: KachakaCommands(KachakaConnection.get(ip)).stop() *)

Stoppers == 1..NumStoppers

NoOut == [ok |-> FALSE, error |-> "none"]

InitStop ==
    /\ es_reachable \in BOOLEAN
    /\ es_pool = FALSE
    /\ es_client = FALSE
    /\ es_stub = "none"
    /\ es_lock = 0
    /\ es_pc = [t \in Stoppers |-> "idle"]
    /\ es_phase = [t \in Stoppers |-> "get"]
    /\ es_rpcs = [t \in Stoppers |-> 0]
    /\ es_out = [t \in Stoppers |-> NoOut]
    /\ es_calls = [t \in Stoppers |-> 0]
    /\ es_fresh = [t \in Stoppers |-> FALSE]
    /\ es_removes = 0

\* no emergency_stop caller, a robot that answers
InitStopIdle ==
    /\ InitStop
    /\ es_reachable

\* emergency_stop(ip) is entered: get() looks the key up or creates the
\* Connection under _pool_lock (lines 71-75) and calls its
\* _ensure_connected (line 76)
EmergencyStop(t) ==
    /\ es_pc[t] = "idle"
    /\ es_calls[t] < MaxStopCalls
    /\ es_calls' = [es_calls EXCEPT ![t] = @ + 1]
    /\ es_rpcs' = [es_rpcs EXCEPT ![t] = 0]
    /\ es_out' = [es_out EXCEPT ![t] = NoOut]
    /\ es_fresh' = [es_fresh EXCEPT ![t] = ~es_pool]
    /\ es_pool' = TRUE
    /\ es_phase' = [es_phase EXCEPT ![t] = "get"]
    /\ es_pc' = [es_pc EXCEPT ![t] = "ensure"]
    /\ UNCHANGED <<es_reachable, es_client, es_stub, es_lock, es_removes>>
    /\ StopOnly

\* _ensure_connected, lines 248-252: the unlocked test, then the lock and
\* the test again
StopEnsure(t) ==
    /\ \/ /\ es_pc[t] = "ensure"
          /\ es_pc' = [es_pc EXCEPT ![t] = IF es_client THEN "left" ELSE "lock"]
          /\ UNCHANGED es_lock
       \/ /\ es_pc[t] = "lock"
          /\ es_lock = 0
          /\ IF es_client
             THEN /\ es_pc' = [es_pc EXCEPT ![t] = "left"]
                  /\ UNCHANGED es_lock
             ELSE /\ es_pc' = [es_pc EXCEPT ![t] = "construct"]
                  /\ es_lock' = t
    /\ UNCHANGED <<es_reachable, es_pool, es_client, es_stub, es_phase,
                   es_rpcs, es_out, es_calls, es_fresh, es_removes>>
    /\ StopOnly

\* lines 254-264: the client is stored with the SDK's plain stub, then the
\* stub over the intercepted channel replaces it
StopConnect(t) ==
    /\ \/ /\ es_pc[t] = "construct"
          /\ es_client' = TRUE
          /\ es_stub' = "plain"
          /\ es_pc' = [es_pc EXCEPT ![t] = "wrap"]
       \/ /\ es_pc[t] = "wrap"
          /\ es_stub' = "intercepted"
          /\ es_pc' = [es_pc EXCEPT ![t] = "probe"]
          /\ UNCHANGED es_client
    /\ UNCHANGED <<es_reachable, es_pool, es_lock, es_phase, es_rpcs, es_out,
                   es_calls, es_fresh, es_removes>>
    /\ StopOnly

\* lines 267-275: get_robot_serial_number(), a blocking RPC whose failure
\* is logged; the lock is released
StopProbe(t) ==
    /\ es_pc[t] = "probe"
    /\ es_rpcs' = [es_rpcs EXCEPT ![t] = @ + 1]
    /\ es_lock' = 0
    /\ es_pc' = [es_pc EXCEPT ![t] = "left"]
    /\ UNCHANGED <<es_reachable, es_pool, es_client, es_stub, es_phase,
                   es_out, es_calls, es_fresh, es_removes>>
    /\ StopOnly

\* _ensure_connected returned: get() returns the Connection and
\* KachakaCommands.__init__ reads conn.client (commands.py line 30), which
\* calls _ensure_connected again; after that stop() is called
StopEnsured(t) ==
    /\ es_pc[t] = "left"
    /\ IF es_phase[t] = "get"
       THEN /\ es_phase' = [es_phase EXCEPT ![t] = "client"]
            /\ es_pc' = [es_pc EXCEPT ![t] = "ensure"]
       ELSE /\ es_pc' = [es_pc EXCEPT ![t] = "stop"]
            /\ UNCHANGED es_phase
    /\ UNCHANGED <<es_reachable, es_pool, es_client, es_stub, es_lock,
                   es_rpcs, es_out, es_calls, es_fresh, es_removes>>
    /\ StopOnly

\* KachakaCommands.stop, lines 229-235: set_robot_stop(), a blocking RPC;
\* any exception becomes {ok: False, error}
StopRpc(t) ==
    /\ es_pc[t] = "stop"
    /\ es_rpcs' = [es_rpcs EXCEPT ![t] = @ + 1]
    /\ es_out' = [es_out EXCEPT ![t] =
                    IF es_reachable THEN [ok |-> TRUE, error |-> ""]
                    ELSE [ok |-> FALSE, error |-> "DEADLINE_EXCEEDED"]]
    /\ es_pc' = [es_pc EXCEPT ![t] = "returned"]
    /\ UNCHANGED <<es_reachable, es_pool, es_client, es_stub, es_lock,
                   es_phase, es_calls, es_fresh, es_removes>>
    /\ StopOnly

\* the tool call is over
StopReturned(t) ==
    /\ es_pc[t] = "returned"
    /\ es_pc' = [es_pc EXCEPT ![t] = "idle"]
    /\ UNCHANGED <<es_reachable, es_pool, es_client, es_stub, es_lock,
                   es_phase, es_rpcs, es_out, es_calls, es_fresh, es_removes>>
    /\ StopOnly

\* remove(target) between calls: the next get() creates a new Connection
StopRemove ==
    /\ es_removes < MaxStopRemoves
    /\ \A t \in Stoppers : es_pc[t] = "idle"
    /\ es_pool
    /\ es_removes' = es_removes + 1
    /\ es_pool' = FALSE
    /\ es_client' = FALSE
    /\ es_stub' = "none"
    /\ UNCHANGED <<es_reachable, es_lock, es_pc, es_phase, es_rpcs, es_out,
                   es_calls, es_fresh>>
    /\ StopOnly

NextStop ==
    \/ \E t \in Stoppers : EmergencyStop(t)
    \/ \E t \in Stoppers : StopEnsure(t)
    \/ \E t \in Stoppers : StopConnect(t)
    \/ \E t \in Stoppers : StopProbe(t)
    \/ \E t \in Stoppers : StopEnsured(t)
    \/ \E t \in Stoppers : StopRpc(t)
    \/ \E t \in Stoppers : StopReturned(t)
    \/ StopRemove

---------------------------------------------------------------------------
(* interceptors.TimeoutInterceptor *)

NoCallTimeout == -1     \* client_call_details.timeout is None

DefaultTimeouts == {5, 10}
CallTimeouts == {NoCallTimeout, 0, 3}
Methods == {"/kachaka/GetPose", "/kachaka/StartCommand"}
Metadatas == {"None", "key=value"}
WaitForReadys == {"None", "True"}
Requests == {"req", "request"}

\* the attributes of a grpc.ClientCallDetails (credentials and compression
\* are carried as one value each)
CallDetails ==
    [method : Methods, timeout : CallTimeouts, metadata : Metadatas,
     credentials : {"None"}, wait_for_ready : WaitForReadys,
     compression : {"None", "Gzip"}]

NoCall ==
    [method |-> "", timeout |-> NoCallTimeout, metadata |-> "None",
     credentials |-> "None", wait_for_ready |-> "None",
     compression |-> "None"]

\* mutant: the default replaces the caller's timeout too
ForwardedDetails_Always(details, default) == [details EXCEPT !.timeout = default]

\* lines 45-54: a new _CallDetails with the default timeout when the
\* caller's is None, else the caller's object as it is
ForwardedDetails(details, default) ==
    IF details.timeout = NoCallTimeout
    THEN [method |-> details.method, timeout |-> default,
          metadata |-> details.metadata, credentials |-> details.credentials,
          wait_for_ready |-> details.wait_for_ready,
          compression |-> details.compression]
    ELSE details

InitInterceptor ==
    /\ default_timeout \in DefaultTimeouts
    /\ ic_details = NoCall
    /\ ic_request = ""
    /\ ic_forwarded = <<>>
    /\ ic_result = ""
    /\ ic_calls = 0

\* an interceptor through which no call passes
InitInterceptorIdle ==
    /\ InitInterceptor
    /\ default_timeout = 5

\* intercept_unary_unary(continuation, client_call_details, request): the
\* continuation is called once and its value returned
InterceptUnaryUnary(details, request) ==
    /\ ic_calls < MaxIntercepts
    /\ ic_calls' = ic_calls + 1
    /\ ic_details' = details
    /\ ic_request' = request
    /\ ic_forwarded' = Append(ic_forwarded,
                          [details |-> ForwardedDetails(details, default_timeout),
                           request |-> request])
    /\ ic_result' = "ok"
    /\ UNCHANGED default_timeout
    /\ InterceptorOnly

NextInterceptor ==
    \E details \in CallDetails, request \in Requests :
        InterceptUnaryUnary(details, request)

---------------------------------------------------------------------------
(* RobotController: the state mutex around the shelf monitor *)

\* what an on_shelf_dropped callable may do with the controller it was
\* given at construction
ListenerKinds == {"logs", "reads_state", "resets"}

\* no listener, the executor outside the shelf-monitor block
InitLockIdle ==
    /\ xpos = "idle"
    /\ listener = "none"

samplerRest == <<robot_state, stop_event, spos, s_now, pose, is_running,
                 last_slow, stime, snaps, iter, lastBatteryOk, taken,
                 mutated, caller>>
execRest == <<execLocals, on_shelf_dropped, metricVars, histVars, startVars,
              countVars>>
LockFrame == UNCHANGED <<poolVars, healthVars, waitVars, retryVars,
                         resolverVars, cameraVars, stopVars, interceptorVars>>

\* move_shelf, lines 491-494: the flag is cleared and the shelf id seeded
\* under the lock, then the monitor is armed
ArmShelfMonitor ==
    /\ xpos = "idle"
    /\ ~monitoring_shelf
    /\ state_lock = "free"
    /\ shelf_dropped' = FALSE
    /\ \E sid \in ShelfIds : moving_shelf_id' = sid
    /\ monitoring_shelf' = TRUE
    /\ UNCHANGED <<xpos, listener, state_lock, samplerRest, execRest>>
    /\ LockFrame

\* lines 341-343: an armed iteration reads get_moving_shelf_id() and goes
\* for the lock
ShelfPoll ==
    /\ xpos = "idle"
    /\ monitoring_shelf
    /\ xpos' = "lock"
    /\ UNCHANGED <<listener, state_lock, samplerRest, execRest, monitoring_shelf,
                   shelf_dropped, moving_shelf_id>>
    /\ LockFrame

\* `with self._state_lock` on the executor thread: threading.Lock is not
\* reentrant, the thread goes on only once the lock is free.  At line 344
\* the block of lines 345-349 follows with the lock kept; inside the
\* listener, the state property (lines 143-144) or reset_shelf_monitor
\* (lines 162-164) runs its block and releases
TakeStateLock ==
    /\ xpos \in {"lock", "in_state", "in_reset"}
    /\ state_lock = "free"
    /\ CASE xpos = "lock" ->
              \E mid \in ShelfIds \cup {""} :
                /\ state_lock' = "executor"
                /\ moving_shelf_id' = IF mid = "" THEN None ELSE mid
                /\ IF Truthy(moving_shelf_id) /\ mid = ""
                   THEN /\ shelf_dropped' = TRUE
                        /\ xpos' = IF on_shelf_dropped THEN "listener"
                                                       ELSE "disarm"
                   ELSE /\ xpos' = "release"
                        /\ UNCHANGED shelf_dropped
         [] xpos = "in_state" ->
              /\ xpos' = "disarm"
              /\ UNCHANGED <<state_lock, moving_shelf_id, shelf_dropped>>
         [] xpos = "in_reset" ->
              /\ shelf_dropped' = FALSE
              /\ moving_shelf_id' = None
              /\ xpos' = "disarm"
              /\ UNCHANGED state_lock
    /\ UNCHANGED <<listener, samplerRest, execRest, monitoring_shelf>>
    /\ LockFrame

\* line 351: self._on_shelf_dropped(prev), called inside the with block of
\* line 344; the callable logs, or reads ctrl.state (line 143), or calls
\* ctrl.reset_shelf_monitor() (lines 161-162)
CallListener ==
    /\ xpos = "listener"
    /\ CASE listener = "logs" ->
              /\ xpos' = "disarm"
              /\ UNCHANGED monitoring_shelf
         [] listener = "reads_state" ->
              /\ xpos' = "in_state"
              /\ UNCHANGED monitoring_shelf
         [] listener = "resets" ->
              /\ monitoring_shelf' = FALSE
              /\ xpos' = "in_reset"
    /\ UNCHANGED <<listener, state_lock, samplerRest, execRest, shelf_dropped,
                   moving_shelf_id>>
    /\ LockFrame

\* line 352 after a drop, and the end of the with block of line 344
ShelfRelease ==
    /\ xpos \in {"disarm", "release"}
    /\ monitoring_shelf' = IF xpos = "disarm" THEN FALSE ELSE monitoring_shelf
    /\ state_lock' = "free"
    /\ xpos' = "idle"
    /\ UNCHANGED <<listener, samplerRest, execRest, shelf_dropped,
                   moving_shelf_id>>
    /\ LockFrame

\* the executor thread's steps from the lock to its release
ShelfStep ==
    \/ TakeStateLock
    \/ CallListener
    \/ ShelfRelease

NextLock ==
    \/ ArmShelfMonitor
    \/ ShelfPoll
    \/ TakeStateLock
    \/ CallListener
    \/ ShelfRelease
    \/ ControllerStart
    \/ SamplerTop
    \/ SamplerFastRead
    \/ SamplerFastWrite
    \/ SamplerSlow
    \/ SamplerBatteryWrite
    \/ SamplerWait
    \/ ReadState

---------------------------------------------------------------------------
(* Specifications *)

\* the controller of Spec is built around a pooled Connection whose health
\* state is whatever its prober left (SpecHealth reaches both values)
Init ==
    /\ InitExec
    /\ InitPool
    /\ InitHealth
    /\ InitWait
    /\ InitRetry
    /\ InitSampler
    /\ InitResolverEmpty
    /\ InitCameraPlain
    /\ InitStopIdle
    /\ InitInterceptorIdle
    /\ InitLockIdle
    /\ conn_state \in ConnectionState

Next == NextExec

Spec == Init /\ [][Next]_vars

\* the steps of a running command: each RPC returns or raises in finite
\* time and each sleep ends
ExecStep ==
    \/ StartCommand
    \/ RegistrationPoll
    \/ MainPoll
    \/ MainPollRpc
    \/ ShelfMonitor
    \/ FetchResult

\* a Controller with an on-shelf-dropped listener on a connected robot
InitLive ==
    /\ Init
    /\ on_shelf_dropped
    /\ conn_state = "CONNECTED"

SpecLive == InitLive /\ [][Next]_vars /\ WF_vars(ExecStep)

\* a timeout longer than the registration window
LongTimeout == RegBudget + PollInterval + 1

\* return_home with a long timeout, once
InvokeLong ==
    /\ calls = 0
    /\ Invoke("return_home", LongTimeout, "")

NextLong ==
    \/ InvokeLong
    \/ Returned
    \/ StartCommand
    \/ RegistrationPoll
    \/ MainPoll
    \/ MainPollRpc
    \/ FetchResult

SpecLong == InitLive /\ [][NextLong]_vars

InitIdle ==
    /\ InitExec
    /\ on_shelf_dropped = FALSE
    /\ InitPool
    /\ InitHealth
    /\ InitWait
    /\ InitRetry
    /\ InitSampler
    /\ InitResolverEmpty
    /\ InitCameraPlain
    /\ InitStopIdle
    /\ InitInterceptorIdle
    /\ InitLockIdle
    /\ conn_state = "CONNECTED"

SpecPool == InitIdle /\ [][NextPool]_vars

SpecHealth == InitIdle /\ [][NextHealth]_vars

\* the monitored Connection and a user thread that pings on its own
NextProbe ==
    \/ NextHealth
    \/ CallerPing

SpecProbe == InitIdle /\ [][NextProbe]_vars

SpecWait == InitIdle /\ [][NextWait]_vars

\* a monitored Connection without listener and a caller of
\* wait_for_state(target) with timeout=None
NextBlocked ==
    \/ StartMonitoring(None)
    \/ StartReturns
    \/ \E p \in Probers : ProberWait(p)
    \/ \E p \in Probers : ProberPing(p)
    \/ \E p \in Probers : ProberSetState(p)
    \/ \E p \in Probers : ProberCallback(p)
    \/ \E tg \in ConnectionState : WaitCall(tg, NoTimeout)
    \/ WaitWake

\* a notified waiter is scheduled again
SpecBlocked == InitIdle /\ [][NextBlocked]_vars /\ WF_vars(WaitWake)

SpecRetry == InitIdle /\ [][NextRetry]_vars

SpecSampler == InitIdle /\ [][NextSampler]_vars
SpecLifecycle == InitIdle /\ [][NextLifecycle]_vars

\* a Controller built with or without an on_shelf_dropped callable
InitGuarded ==
    /\ InitExec
    /\ InitPool
    /\ InitHealth
    /\ InitWait
    /\ InitRetry
    /\ InitSampler
    /\ InitResolverEmpty
    /\ InitCameraPlain
    /\ InitStopIdle
    /\ InitInterceptorIdle
    /\ xpos = "idle"
    /\ listener \in ListenerKinds \cup {"none"}
    /\ on_shelf_dropped = (listener # "none")
    /\ conn_state = "CONNECTED"

\* a thread that holds or can take the lock goes on running
SpecLock ==
    /\ InitGuarded
    /\ [][NextLock]_vars
    /\ WF_vars(ShelfStep)
    /\ WF_vars(SamplerFastWrite)

\* a Connection whose robot reports any shelf and location lists
InitLists ==
    /\ InitExec
    /\ on_shelf_dropped = FALSE
    /\ InitPool
    /\ InitHealth
    /\ InitWait
    /\ InitRetry
    /\ InitSampler
    /\ InitResolver
    /\ InitCameraPlain
    /\ InitStopIdle
    /\ InitInterceptorIdle
    /\ InitLockIdle
    /\ conn_state = "CONNECTED"

SpecResolver == InitLists /\ [][NextResolver]_vars

\* a streamer with a callback, with or without detection and annotation
InitStreamer ==
    /\ InitExec
    /\ on_shelf_dropped = FALSE
    /\ InitPool
    /\ InitHealth
    /\ InitWait
    /\ InitRetry
    /\ InitSampler
    /\ InitResolverEmpty
    /\ InitCamera
    /\ on_frame
    /\ InitStopIdle
    /\ InitInterceptorIdle
    /\ InitLockIdle
    /\ conn_state = "CONNECTED"

SpecCamera == InitStreamer /\ [][NextCamera]_vars

\* the emergency_stop tool against a robot that answers or does not
InitTool ==
    /\ InitExec
    /\ on_shelf_dropped = FALSE
    /\ InitPool
    /\ InitHealth
    /\ InitWait
    /\ InitRetry
    /\ InitSampler
    /\ InitResolverEmpty
    /\ InitCameraPlain
    /\ InitStop
    /\ InitInterceptorIdle
    /\ InitLockIdle
    /\ conn_state = "CONNECTED"

SpecStop == InitTool /\ [][NextStop]_vars

\* an interceptor of either default, before its first call
InitChannel ==
    /\ InitExec
    /\ on_shelf_dropped = FALSE
    /\ InitPool
    /\ InitHealth
    /\ InitWait
    /\ InitRetry
    /\ InitSampler
    /\ InitResolverEmpty
    /\ InitCameraPlain
    /\ InitStopIdle
    /\ InitInterceptor
    /\ InitLockIdle
    /\ conn_state = "CONNECTED"

SpecInterceptor == InitChannel /\ [][NextInterceptor]_vars

---------------------------------------------------------------------------
(* Claims about the command executor, checked under Spec *)

\* C1: the executor returns ok=true only if the GetLastCommandResult response
\* read in the returning poll iteration carries the command id handed out by
\* this call's StartCommand and has success=true.
C1_OkOnlyForOwnResult ==
    (pc = "done" /\ result.ok) =>
        /\ accepted
        /\ "GetLastCommandResult" \in rpcs
        /\ result_resp # NoResp
        /\ result_resp.command_id = command_id
        /\ result_resp.success

\* a call that read another command's result first and succeeded afterwards
C1_Witness == pc = "done" /\ result.ok /\ sawStale

\* C2 as stated: after a last-result read with another command's id the
\* executor keeps polling; a success or command failure is returned only on a
\* read with our id, and without such a read the call ends with "TIMEOUT".
C2_StaleThenTimeout ==
    /\ (sawStale /\ pc # "done") => (result = NoResult /\ pc \in {"poll", "polling", "shelf", "result"})
    /\ (sawStale /\ pc = "done") =>
        IF result_resp # NoResp
        THEN /\ result_resp.command_id = command_id
             /\ result.ok = result_resp.success
             /\ ~result.ok => result.error_code = result_resp.error_code
        ELSE /\ ~result.ok
             /\ result.error = "TIMEOUT"

\* C2 as amended: without a later read carrying our id the call ends with
\* ok=false and no error code, its error being "TIMEOUT" or the text of the
\* exception that ended the last-result fetch at the deadline.
C2_StaleNeverAttributed ==
    /\ (sawStale /\ pc # "done") => (result = NoResult /\ pc \in {"poll", "polling", "shelf", "result"})
    /\ (sawStale /\ pc = "done") =>
        IF result_resp # NoResp
        THEN /\ result_resp.command_id = command_id
             /\ result.ok = result_resp.success
             /\ ~result.ok => result.error_code = result_resp.error_code
        ELSE /\ ~result.ok
             /\ "error_code" \notin DOMAIN result
             /\ result.error \in {"TIMEOUT", TimeoutErrorText} \cup RpcErrors
             /\ now >= deadline

\* a call that saw a stale result and ran into the deadline
C2_Witness ==
    pc = "done" /\ sawStale /\ result_resp = NoResp /\ result.error = "TIMEOUT"

\* C3: when StartCommand was accepted and no main-loop poll reported
\* anything but RUNNING/PENDING with our id, the call ends with the TIMEOUT
\* dict carrying the requested timeout, and neither GetLastCommandResult nor
\* a cancel RPC was issued.
C3_TimeoutWhileRunning ==
    (pc = "done" /\ accepted /\ ~sawInactive) =>
        /\ result = [ok |-> FALSE, action |-> action, target |-> target,
                     error |-> "TIMEOUT", timeout |-> timeout]
        /\ timeout = deadline
        /\ now >= deadline
        /\ "GetLastCommandResult" \notin rpcs
        /\ "CancelCommand" \notin rpcs

\* a call whose polls all answered RUNNING/PENDING until the deadline
C3_Witness ==
    /\ pc = "done" /\ accepted /\ ~sawInactive
    /\ poll_success_count > 0 /\ poll_failure_count = 0

\* C4: a command invoked while the connection is DISCONNECTED (and staying
\* so) issues no StartCommand and returns the "DISCONNECTED" error.
C4_DisconnectGate ==
    (conn_state = "DISCONNECTED" /\ pc # "idle") =>
        /\ "StartCommand" \notin rpcs
        /\ pc = "done" => (~result.ok /\ result.error = "DISCONNECTED")

\* C5: an armed monitor reports the first non-empty -> empty transition
\* once: shelf_dropped is set, moving_shelf_id is None, the listener got the
\* previous id exactly once and monitoring is disarmed, so that no second
\* report follows in the same call; an unarmed call never reads the id.
C5_DropReportedOnce ==
    /\ Len(dropLog) <= 1
    /\ Len(listenerCalls) <= 1
    /\ dropLog # <<>> =>
        /\ shelf_dropped
        /\ moving_shelf_id = None
        /\ ~monitoring_shelf
        /\ on_shelf_dropped => listenerCalls = dropLog
    /\ (pc = "shelf") => monitoring_shelf

\* C6: move_shelf clears shelf_dropped, seeds moving_shelf_id and arms the
\* monitor before StartCommand; a first moving-shelf read that is empty is
\* reported as a drop of the target shelf; the monitor stays armed after a
\* move_shelf without a drop; return_shelf returns with the monitor disarmed.
C6_MoveShelfArmsReturnShelfDisarms ==
    /\ (action = "move_shelf" /\ pc = "start" /\ rpcs = {}) =>
        (~shelf_dropped /\ moving_shelf_id = shelf_id /\ monitoring_shelf)
    /\ (action = "move_shelf" /\ firstRead = "") =>
        /\ shelf_dropped
        /\ dropLog # <<>> /\ dropLog[1] = shelf_id
        /\ on_shelf_dropped => (listenerCalls # <<>> /\ listenerCalls[1] = shelf_id)
    /\ (action = "move_shelf" /\ pc = "done" /\ dropLog = <<>>) => monitoring_shelf
    /\ (action = "return_shelf" /\ pc = "done") => ~monitoring_shelf

\* a move_shelf with a listener whose first moving-shelf read was empty
C6_Witness ==
    action = "move_shelf" /\ firstRead = "" /\ pc = "done" /\ on_shelf_dropped

---------------------------------------------------------------------------
(* Claims about the pool and the lazy client, checked under SpecPool *)

\* the host part and the port part of a target string, read off the string
\* itself: the port is what follows the first ":", 26400 when there is none
C7_ColonAt(t) ==
    IF Contains(t, ":")
    THEN CHOOSE i \in 1..Len(t) : t[i] = ":" /\ \A j \in 1..(i - 1) : t[j] # ":"
    ELSE Len(t) + 1
C7_Host(t) == SubSeq(t, 1, C7_ColonAt(t) - 1)
C7_Port(t) ==
    IF Contains(t, ":") THEN SubSeq(t, C7_ColonAt(t) + 1, Len(t))
    ELSE <<"2", "6", "4", "0", "0">>
C7_SameEndpoint(a, b) == C7_Host(a) = C7_Host(b) /\ C7_Port(a) = C7_Port(b)

\* C7: as long as no remove / clear_pool has run, get calls whose targets
\* name the same host and port (port 26400 when none is given) all return the
\* same Connection, that Connection is the pool's entry for the key, and no
\* second Connection was ever built for that endpoint.
C7_SameKeySameConnection ==
    removes = 0 =>
        /\ \A g1 \in getReturns, g2 \in getReturns :
               C7_SameEndpoint(g1[1], g2[1]) => g1[2] = g2[2]
        /\ \A g \in getReturns :
               /\ \E k \in Keys : C7_SameEndpoint(k, g[1]) /\ pool[k] = g[2]
               /\ Cardinality({c \in 1..Len(conns) :
                      C7_SameEndpoint(conns[c].target, g[1])}) = 1

\* two threads are inside get for "h" and "h:26400" at the same time: one has
\* returned while the other is still initialising the same Connection
C7_Witness ==
    /\ removes = 0
    /\ \E t1 \in Threads, t2 \in Threads :
        /\ t1 # t2
        /\ op[t1][1] = "get" /\ op[t2][1] = "get"
        /\ op[t1][2] # op[t2][2]
        /\ handle[t1] # 0 /\ handle[t1] = handle[t2]
        /\ tpc[t1] = "idle" /\ <<op[t1][2], handle[t1]>> \in getReturns
        /\ tpc[t2] \in {"wrap", "probe"}

\* C8: whatever get or the client property returns has a client whose stub
\* is the one over the intercepted channel, and every RPC of ping goes
\* through such a stub.
C8_ReturnedHandleIntercepted ==
    /\ \A r \in returns : r.client # 0 /\ r.stub = "intercepted"
    /\ rpcStubs \subseteq {"intercepted"}

\* C9: the client of a Connection is constructed at most once, and every
\* get / client / ping on the Connection is handed that one client.
C9_ClientBuiltOnce ==
    /\ \A c \in 1..Len(conns) :
           /\ conns[c].built <= 1
           /\ conns[c].client \in {0, 1}
    /\ \A r \in returns : r.client = 1
    /\ \A r1 \in returns, r2 \in returns :
           r1.conn = r2.conn => r1.client = r2.client

\* one thread built the client and went on to use it twice while another
\* thread, which had passed the unlocked test before, waits for the lock
C9_Witness ==
    \E c \in 1..Len(conns), t \in Threads :
        /\ conns[c].built = 1
        /\ tpc[t] = "lock" /\ handle[t] = c
        /\ \E r1 \in returns, r2 \in returns :
               /\ r1.conn = c /\ r2.conn = c
               /\ r1.op = "get" /\ r2.op \in {"client", "ping"}

---------------------------------------------------------------------------
(* Claims about the health machine, checked under SpecHealth *)

C10_Expected(i) == IF i % 2 = 1 THEN "DISCONNECTED" ELSE "CONNECTED"

---------------------------------------------------------------------------
(* Claims about wait_for_state, checked under SpecWait *)

\* C11: wait_for_state returns True only with the health state equal to the
\* target when it returns; it returns True at once, without sleeping, when
\* the state equals the target at the call; it returns False only with a
\* finite timeout that has elapsed and the state still different from the
\* target; and the state is only ever what the prober last changed it to.
C11_WaitForState ==
    /\ (wpc = "returned" /\ wresult) => wAtReturn = wtarget
    /\ (wpc = "returned" /\ wAtCall = wtarget) =>
           (wresult /\ ~wblocked /\ wclock = 0)
    /\ (wpc = "returned" /\ ~wresult) =>
           /\ wtimeout # NoTimeout
           /\ wclock >= wtimeout
           /\ wblocked
           /\ wAtReturn # wtarget
    /\ conn_state = IF changes = <<>> THEN "CONNECTED"
                    ELSE changes[Len(changes)]

\* a wait for DISCONNECTED with a finite timeout that slept, was woken by the
\* change to DISCONNECTED after some time and returned True
C11_Witness ==
    /\ wpc = "returned" /\ wresult /\ wblocked
    /\ wtarget = "DISCONNECTED" /\ wAtCall = "CONNECTED"
    /\ wtimeout = MaxWaitTimeout /\ wclock = 1

---------------------------------------------------------------------------
(* Claims about with_retry, checked under SpecRetry *)

C13_RetryableFault(o) ==
    o.kind = "rpc"
        /\ o.code \in {"UNAVAILABLE", "DEADLINE_EXCEEDED", "RESOURCE_EXHAUSTED"}

\* C13: in count mode with max_attempts = M >= 1, a run in which every
\* invocation raised a retryable fault made exactly M invocations and
\* returned {ok: false, error: str(last error), retryable: true,
\* attempts: M}; in both modes a returned attempts field is the number of
\* invocations made.
C13_CountModeExhaustion ==
    /\ ( /\ rpc = "done"
         /\ retry_deadline = NoDeadline
         /\ max_attempts >= 1
         /\ \A i \in 1..Len(outcomes) : C13_RetryableFault(outcomes[i]) )
       => /\ Len(outcomes) = max_attempts
          /\ rresult = [ok |-> FALSE,
                        error |-> "<RpcError "
                                    \o outcomes[Len(outcomes)].code \o ">",
                        retryable |-> TRUE,
                        attempts |-> max_attempts]
    /\ (rpc = "done" /\ "attempts" \in DOMAIN rresult) =>
           rresult.attempts = Len(outcomes)

\* three retryable faults with max_attempts = 3, ending in the exhaustion
\* result
C13_Witness ==
    /\ rpc = "done" /\ retry_deadline = NoDeadline /\ max_attempts = 3
    /\ Len(outcomes) = 3
    /\ \A i \in 1..3 : C13_RetryableFault(outcomes[i])
    /\ outcomes[1].code # outcomes[3].code
    /\ rresult.attempts = 3

\* C14: an invocation that raises an RPC fault with another status, or an
\* exception that is no RPC fault, is the last one: the wrapper has returned
\* {ok: false, retryable: false, error} and no sleep followed it.
C14_NonRetryableStopsAtOnce ==
    \A i \in 1..Len(outcomes) :
        LET o == outcomes[i]
        IN  (o.kind = "other" \/ (o.kind = "rpc" /\ ~C13_RetryableFault(o))) =>
                /\ i = Len(outcomes)
                /\ rpc = "done"
                /\ rresult = [ok |-> FALSE, retryable |-> FALSE,
                              error |-> IF o.kind = "rpc"
                                        THEN o.code \o ": " \o o.details
                                        ELSE o.text]
                /\ \A j \in 1..Len(sleepLog) : sleepLog[j].after < i

\* deadline mode: a retryable fault, a sleep, then INVALID_ARGUMENT with time
\* still remaining
C14_Witness ==
    /\ rpc = "done" /\ retry_deadline = MaxDeadline /\ rnow < abs_deadline
    /\ Len(outcomes) = 2
    /\ C13_RetryableFault(outcomes[1])
    /\ outcomes[2].kind = "rpc" /\ outcomes[2].code = "INVALID_ARGUMENT"
    /\ Len(sleepLog) = 1
    /\ ~rresult.retryable

\* C15: the first invocation that returns is the last one, and the wrapper
\* has returned its value unchanged.
C15_FirstSuccessReturned ==
    \A i \in 1..Len(outcomes) :
        outcomes[i].kind = "return" =>
            /\ i = Len(outcomes)
            /\ rpc = "done"
            /\ rresult = outcomes[i].value
            /\ \A j \in 1..Len(sleepLog) : sleepLog[j].after < i

\* max_attempts = 3, UNAVAILABLE twice, then {ok: true}: three invocations
C15_Witness ==
    /\ rpc = "done" /\ retry_deadline = NoDeadline /\ max_attempts = 3
    /\ Len(outcomes) = 3
    /\ outcomes[1].kind = "rpc" /\ outcomes[1].code = "UNAVAILABLE"
    /\ outcomes[2].kind = "rpc" /\ outcomes[2].code = "UNAVAILABLE"
    /\ outcomes[3] = [kind |-> "return", value |-> [ok |-> TRUE]]
    /\ rresult = [ok |-> TRUE]

\* C16: in deadline mode every invocation after the first begins before the
\* absolute deadline, no sleep ends after the deadline, a retryable fault
\* that ends at or after the deadline is followed by no sleep but by the
\* exhaustion result, and the wrapper never gives up while time remains,
\* whatever max_attempts is.
C16_DeadlineMode ==
    retry_deadline # NoDeadline =>
        /\ \A i \in 2..Len(callTimes) : callTimes[i].begin < abs_deadline
        /\ \A j \in 1..Len(sleepLog) :
               /\ sleepLog[j].for <= abs_deadline - sleepLog[j].from
               /\ sleepLog[j].from + sleepLog[j].for <= abs_deadline
        /\ \A i \in 1..Len(outcomes) :
               (C13_RetryableFault(outcomes[i])
                    /\ callTimes[i].end >= abs_deadline) =>
                   /\ rpc = "done"
                   /\ i = Len(outcomes)
                   /\ \A j \in 1..Len(sleepLog) : sleepLog[j].after < i
                   /\ rresult.retryable /\ rresult.attempts = i
        /\ (rpc = "done" /\ "attempts" \in DOMAIN rresult) =>
               rnow >= abs_deadline

\* deadline mode with max_attempts = 1: three invocations, the last sleep cut
\* down to the time that remained
C16_Witness ==
    /\ rpc = "done" /\ retry_deadline = MaxDeadline /\ max_attempts = 1
    /\ Len(outcomes) = 3
    /\ Len(sleepLog) = 3
    /\ sleepLog[3].for < Backoff(3, base_delay, max_delay)
    /\ rresult.attempts = 3

\* C17: the j-th sleep follows the j-th failed invocation and, in count mode,
\* lasts min(base_delay * 2^(j-1), max_delay); every sleep is followed by
\* another invocation, so a count-mode run that exhausts M attempts has made
\* M-1 sleeps.
C17_SleepsOnlyBetweenAttempts ==
    /\ \A j \in 1..Len(sleepLog) :
           /\ sleepLog[j].after = j
           /\ retry_deadline = NoDeadline =>
                  sleepLog[j].for =
                      (IF base_delay * Pow2(j - 1) <= max_delay
                       THEN base_delay * Pow2(j - 1) ELSE max_delay)
    /\ rpc = "done" =>
           \A j \in 1..Len(sleepLog) : sleepLog[j].after < Len(outcomes)
    /\ ( /\ rpc = "done" /\ retry_deadline = NoDeadline /\ max_attempts >= 1
         /\ Len(outcomes) = max_attempts
         /\ C13_RetryableFault(outcomes[Len(outcomes)]) )
       => Len(sleepLog) = max_attempts - 1

\* C18: every snapshot a reader gets holds the five fast fields of one fast
\* cycle (never a mix of two), keeps the values it was taken with whatever the
\* sampler and the executor write afterwards, and a reader's write to one
\* snapshot shows in that snapshot only: not in the live state, not in
\* another snapshot.
C18_SnapshotAtomicAndIndependent ==
    /\ \A i \in 1..Len(snaps) :
          /\ taken[i].whole
          /\ Deref(snaps[i]) =
                IF i \in mutated
                THEN [taken[i].val EXCEPT !.pose_x = ScribbleValue]
                ELSE taken[i].val
    /\ robot_state.pose_x # ScribbleValue

\* two snapshots of different cycles, the first one written to by its reader,
\* and the sampler and the executor have written since
C18_Witness ==
    /\ Len(snaps) = 2
    /\ mutated = {1}
    /\ taken[1].val.last_updated = 0
    /\ taken[2].val.last_updated = StartTime
    /\ robot_state.last_updated = StartTime + FastInterval
    /\ taken[2].val.moving_shelf_id # moving_shelf_id

\* C19: the sampler thread ends only when stop is signalled; at the end of an
\* iteration, a failed fast read has left the five fast fields as they were
\* and the battery was still read if the slow cycle was due, and a failed
\* battery read has left battery_pct as it was while a successful fast read
\* was still stored.
C19_SamplerSurvivesFailures ==
    /\ spos = "exited" => stop_event
    /\ spos = "wait" =>
          /\ iter.fastFailed =>
                FastFields(robot_state) = FastFields(iter.before)
          /\ ~iter.fastFailed => FastFields(robot_state) = CycleFields
          /\ iter.due => iter.batteryTried
          /\ iter.batteryFailed =>
                robot_state.battery_pct = iter.before.battery_pct
          /\ (iter.batteryTried /\ ~iter.batteryFailed) =>
                robot_state.battery_pct = ToInt(iter.battery)

\* the first iteration stored the pose and failed on the battery; the second
\* failed on the pose and stored the battery
C19_Witness ==
    /\ spos = "wait"
    /\ ~stop_event
    /\ s_now = StartTime + FastInterval
    /\ robot_state.last_updated = StartTime
    /\ iter.fastFailed
    /\ iter.due
    /\ ~iter.batteryFailed
    /\ iter.before.battery_pct = 0
    /\ robot_state.battery_pct = 85

\* C20: when StartCommand answers with success = false the call returns in
\* that very step, without touching the metrics or the shelf state, and the
\* returned dict is {ok: false, action, target, error_code, error, elapsed}
\* with no GetCommandState or GetLastCommandResult issued; the error text is
\* "error_code=N: " followed by title_en, or by title when title_en is empty,
\* and exactly "error_code=N" when the catalog fetch raised, has no entry for
\* N, or both titles are empty.
C20_RejectedStartReturnsAtOnce ==
    /\ [](  (pc = "done" /\ start_resp.bound /\ ~start_resp.success)
         => LET N == start_resp.error_code
                known == ~catalog.raised /\ N \in DOMAIN catalog.definitions
                text == IF ~known THEN ""
                        ELSE IF catalog.definitions[N].title_en # ""
                             THEN catalog.definitions[N].title_en
                             ELSE catalog.definitions[N].title
            IN  /\ DOMAIN result = {"ok", "action", "target", "error_code",
                                    "error", "elapsed"}
                /\ result.ok = FALSE
                /\ result.action = action
                /\ result.target = target
                /\ result.error_code = N
                /\ result.error =
                      IF text = "" THEN "error_code=" \o ToString(N)
                      ELSE "error_code=" \o ToString(N) \o ": " \o text
                /\ result.elapsed <= now
                /\ rpcs \cap {"GetCommandState", "GetLastCommandResult"} = {})
    /\ [][  (pc = "start" /\ start_resp'.bound /\ ~start_resp'.success)
         => /\ pc' = "done"
            /\ UNCHANGED <<metricVars, shelf_dropped, moving_shelf_id>>]_vars

\* a rejected move_shelf whose catalog entry has only a localised title, after
\* an earlier command has polled
C20_Witness ==
    /\ pc = "done"
    /\ action = "move_shelf"
    /\ start_resp.bound
    /\ ~start_resp.success
    /\ ~catalog.raised
    /\ start_resp.error_code \in DOMAIN catalog.definitions
    /\ catalog.definitions[start_resp.error_code].title_en = ""
    /\ result.error = "error_code=10253: Tana ga mitsukarimasen"
    /\ poll_count > 0
    /\ moving_shelf_id # None

\* C21: poll_count >= poll_success_count + poll_failure_count in every state,
\* with equality everywhere but between the count and the outcome of a
\* main-loop poll; the counters equal the numbers of main-loop polls issued,
\* answered and failed since the last reset, registration polls are in none
\* of them, and poll_rtt_list has one entry per answered poll.
C21_PollCountsAddUp ==
    /\ poll_count >= poll_success_count + poll_failure_count
    /\ pc # "polling" =>
          /\ poll_count = poll_success_count + poll_failure_count
          /\ poll_count = mainIssued
    /\ pc = "polling" => poll_count = mainIssued + 1
    /\ poll_success_count = mainOk
    /\ poll_failure_count = mainFailed
    /\ Len(poll_rtt_list) = poll_success_count

\* the second command, after a registration poll, has counted a poll that is
\* still in flight; the first command had an answered and a failed poll
C21_Witness ==
    /\ calls = 2
    /\ pc = "polling"
    /\ regPolled
    /\ poll_success_count >= 1
    /\ poll_failure_count >= 1
    /\ poll_count = poll_success_count + poll_failure_count + 1

\* the callers of ensure_resolver have never overlapped and none is inside
C22_Settled ==
    /\ resolver_ready
    /\ ~overlap
    /\ \A c \in Callers : epc[c] = "idle"

\* no two entries of the list have the same name
C22_DistinctNames(list) ==
    \A i, j \in DOMAIN list : list[i].name = list[j].name => i = j

\* the name of entry i can stand for its id: the id is not empty and the name
\* is not the id of another entry
C22_Unambiguous(list, i) ==
    /\ list[i].id # ""
    /\ \A j \in DOMAIN list :
          list[j].id = list[i].name => list[i].id = list[i].name

C23_ReadyMeansFrozen ==
    resolver_ready => (CurrentMaps = readyMaps /\ ~lateRpc)


---------------------------------------------------------------------------
(* CameraStreamer counters and stats *)

C24_IterationDone == cpos \in {"unborn", "top", "wait", "exited"}

C24_RateIsRatio(out) ==
    IF out.total_frames > 0
    THEN out.drop_rate_pct.num * out.total_frames =
            100 * out.dropped * out.drop_rate_pct.den
    ELSE out.drop_rate_pct.num = 0

\* C24: dropped never exceeds total_frames; total_frames is the number of
\* captures started (the running iteration has counted the capture it is
\* about to make); between iterations total_frames is the published frames
\* plus the dropped ones; the rate stats returns is 100 * dropped / total of
\* the counts it returns, 0 when the total is 0, and 30 for 3 out of 10.
C24_DropAccounting ==
    /\ dropped <= total_frames
    /\ total_frames = attempts + (IF cpos = "capture" THEN 1 ELSE 0)
    /\ C24_IterationDone => total_frames = captured + dropped
    /\ stats_out # NoStats => C24_RateIsRatio(stats_out)
    /\ DropRate(0, 0).num = 0
    /\ DropRate(3, 10).num = 30 * DropRate(3, 10).den

C24_Witness ==
    /\ cpos = "wait"
    /\ captured = 1
    /\ stats_out # NoStats
    /\ stats_out.total_frames = 2
    /\ stats_out.dropped = 1

C25_Published == cpos \in {"metrics", "rec_test", "latency", "success", "wait"}

C25_AfterCaptureError ==
    (cpos = "wait" /\ tick.captureFailed) =>
        /\ dropped = tick.dropped + 1
        /\ latest_frame = tick.frame
        /\ latest_detections = tick.detections
        /\ Len(frameCalls) = tick.calls

C25_AfterOverlayError ==
    (C25_Published /\ (tick.detectFailed \/ tick.annotateFailed)) =>
        /\ latest_frame.ok
        /\ latest_frame.id = total_frames
        /\ Len(frameCalls) = tick.calls + 1
        /\ frameCalls[Len(frameCalls)] = latest_frame
        /\ dropped = tick.dropped
        /\ tick.detectFailed => latest_frame.objects = "absent"
        /\ tick.annotateFailed => latest_frame.image = "raw"

C25_ThreadContinues ==
    /\ cpos = "drop" => cpos' \in {"drop", "wait"}
    /\ cpos = "wait" => cpos' \in {"wait", "top"}

\* C25: a capture that raises adds one to dropped, leaves latest_frame and
\* latest_detections as they were, does not call on_frame, and the thread goes
\* on to its wait and the next loop test; a detection or annotation error on
\* a tick whose capture succeeded still publishes this tick's frame (without
\* objects, or with the raw image) and leaves dropped alone.
C25_ErrorsPerTick ==
    /\ [](C25_AfterCaptureError /\ C25_AfterOverlayError)
    /\ [][C25_ThreadContinues]_vars

C25_Witness ==
    /\ cpos = "wait"
    /\ tick.detectFailed
    /\ dropped = 1
    /\ latest_frame.id = 2
    /\ latest_frame.objects = "absent"

\* C26: recovery_latency_ms is None until a CONNECTED notification has been
\* received; it is assigned at most once, and the value assigned is not
\* negative.
C26_RecoveryLatency ==
    /\ connectedAt = NoTime => recovery_latency_ms = NoLatency
    /\ Len(latencyLog) <= 1
    /\ recovery_latency_ms # NoLatency =>
          /\ latencyLog = <<recovery_latency_ms>>
          /\ recovery_latency_ms >= 0


\* C27: once a drop has been detected during a command, shelf_dropped is true
\* and the monitor is disarmed, whether or not the listener raised.
C27_RaisingListenerIsolated ==
    dropLog # <<>> => (shelf_dropped /\ ~monitoring_shelf)


C28_Last(q) == q[Len(q)]

\* a transition: the state is stored, a sleeping waiter is notified and the
\* listener has not been called yet
C28_Transition ==
    changes' # changes =>
        /\ conn_state' = C28_Last(changes')
        /\ wpc = "waiting" => wnotified'
        /\ delivered' = delivered

\* a listener call: it is given a state stored before, and neither the call
\* nor its exception touches the stored state
C28_ListenerCall ==
    delivered' # delivered =>
        /\ \E i \in 1..Len(changes) : changes[i] = C28_Last(delivered')
        /\ Len(delivered') <= Len(changes)
        /\ conn_state' = conn_state
        /\ changes' = changes

\* a raising listener: the prober goes back to its wait with the state kept
C28_ListenerRaised ==
    \A p \in Probers :
        (ppc[p] = "caught" /\ ppc'[p] # "caught") =>
            /\ ppc'[p] = "wait"
            /\ conn_state' = conn_state

\* C28: at every health transition the new state is stored and the waiters
\* are notified before the listener is called; what the listener raises is
\* caught, the stored state stays, and the prober returns to its loop.
C28_NotifyThenListener ==
    [][C28_Transition /\ C28_ListenerCall /\ C28_ListenerRaised]_vars

C28_Witness ==
    \E p \in Probers :
        /\ ppc[p] = "caught"
        /\ conn_state = "CONNECTED"
        /\ Len(changes) = 2
        /\ delivered = changes
        /\ wpc = "waiting"
        /\ wnotified


C29_ConnectionFields == {"connection_state", "disconnected_at", "last_reconnect_at"}

\* C29: every state snapshot carries connection_state, disconnected_at and
\* last_reconnect_at, and a started Controller is subscribed to the health
\* machine of its Connection.
C29_SnapshotCarriesConnection ==
    /\ \A i \in 1..Len(taken) : C29_ConnectionFields \subseteq DOMAIN taken[i].val
    /\ (SamplerAlive /\ ~stop_event) => on_state_change # None


\* C30: an emergency_stop call against a robot that does not answer attempts
\* at most one blocking RPC between its entry and its return, and returns
\* {ok: false, error} instead of raising.
C30_StopWithinOneTimeout ==
    \A t \in Stoppers :
        ~es_reachable =>
            /\ es_rpcs[t] <= 1
            /\ es_pc[t] = "returned" =>
                  (~es_out[t].ok /\ es_out[t].error # "none")

\* C31: every unary call is forwarded exactly once with its request; the
\* forwarded timeout is the default when the caller gave none and the
\* caller's otherwise; method, metadata, credentials, wait_for_ready and
\* compression are forwarded as they came.
C31_TimeoutOnlyWhenUnset ==
    /\ Len(ic_forwarded) = ic_calls
    /\ ic_calls > 0 =>
          LET f == ic_forwarded[ic_calls]
          IN  /\ f.request = ic_request
              /\ f.details.timeout =
                    IF ic_details.timeout = NoCallTimeout
                    THEN default_timeout ELSE ic_details.timeout
              /\ f.details.method = ic_details.method
              /\ f.details.metadata = ic_details.metadata
              /\ f.details.credentials = ic_details.credentials
              /\ f.details.wait_for_ready = ic_details.wait_for_ready
              /\ f.details.compression = ic_details.compression
              /\ ic_result = "ok"

C31_Witness ==
    /\ ic_calls = 2
    /\ ic_forwarded[1].details.timeout = default_timeout
    /\ ic_details.timeout = 3
    /\ ic_forwarded[2].details.timeout = 3
    /\ ic_details.metadata = "key=value"

C32_Running == pc \notin {"idle", "done"}

\* C32: whatever the RPCs, the results and the listener do, a command method
\* that was called returns, and what it returns is a dict with ok and action
\* (the action of the method called), never an exception.
C32_AlwaysReturnsDict ==
    /\ [](pc = "done" =>
            /\ {"ok", "action"} \subseteq DOMAIN result
            /\ result.action = action
            /\ result.ok \in BOOLEAN)
    /\ (C32_Running ~> pc = "done")

C32_Witness ==
    /\ pc = "done"
    /\ calls = 2
    /\ action = "move_shelf"
    /\ ~result.ok
    /\ listenerCalls # <<>>
    /\ sawStale
    /\ poll_failure_count > 0

\* C33: a permanent fault raised by StartCommand is surfaced at once: the
\* executor is never about to call StartCommand again after such a fault,
\* and the result that carries it was returned after one attempt, without a
\* retry sleep.
C33_PermanentFaultNotRetried ==
    /\ ~(pc = "start" /\ last_err \in PermanentErrors)
    /\ (pc = "done" /\ ~accepted /\ "error" \in DOMAIN result /\
        result.error \in PermanentErrors) => result.elapsed <= MaxRpcTicks

\* the poll response kept by the registration loop shows our command id
\* with state RUNNING or PENDING
C34_ShowsOurs ==
    /\ state_resp.command_id = command_id
    /\ state_resp.state \in {"RUNNING", "PENDING"}

\* C34: a step of the registration wait never sets a result and leaves only
\* for the main polling phase; it leaves exactly when the window
\* min(5 s, remaining deadline) has elapsed or the poll just made shows our
\* command id RUNNING or PENDING; otherwise (another answer, or a poll that
\* raised) it sleeps and stays.  Every result of an accepted command is set
\* by a step of the main polling phase.
C34_RegistrationWait ==
    [][/\ pc = "reg" =>
            /\ result' = result
            /\ pc' \in {"reg", "poll"}
            /\ reg_deadline <= deadline
            /\ (pc' = "poll") <=> (now >= reg_deadline \/ C34_ShowsOurs')
            /\ (pc' = "poll" /\ now >= reg_deadline) => now' = now
            /\ (pc' = "reg") => /\ now < reg_deadline
                                /\ now' >= now + RegSleep
       /\ (result' # result /\ pc' = "done" /\ regPolled') =>
            pc \in {"poll", "polling", "shelf", "result"}
      ]_vars

\* the registration window of 5 s ran out before the overall deadline
\* without showing our command, and the executor went on to the main loop
C34_Witness ==
    /\ pc = "poll"
    /\ regPolled
    /\ mainIssued = 0
    /\ now >= reg_deadline
    /\ reg_deadline < deadline
    /\ ~C34_ShowsOurs
    /\ result = NoResult

\* C35: at most one prober thread of the Connection is inside a ping or a
\* state update at any time, whatever start_monitoring and stop_monitoring
\* calls were made and whether or not a join timed out.
C35_AtMostOneProber ==
    Cardinality({p \in Probers :
                    ppc[p] \in {"ping", "set", "callback", "caught"}}) <= 1

\* C36: from the return of start() until the next stop() call the sampler
\* thread of the Controller is running, whatever start and stop calls came
\* before and whether or not a join timed out.
C36_RunningAfterStart ==
    caller = "started" => SamplerAlive

\* C37: the Controller's state mutex is never held forever: whenever the
\* sampler or the executor holds it, it is free again later, whatever the
\* on-shelf-dropped listener does with the controller.
C37_LockAlwaysReleased ==
    (state_lock # "free") ~> (state_lock = "free")

C39_ReachedTargetReturnsTrue ==
    (wpc = "waiting" /\ wtimeout = NoTimeout /\ conn_state = wtarget)
        ~> (wpc = "returned" /\ wresult)

\* C40: the health state is CONNECTED until monitoring is first started,
\* whatever pings are made; it changes only in the state update that
\* follows a prober's ping, and after that update it is the state the
\* ping's outcome asks for; a ping, by a prober or by a user thread, leaves
\* the state as it is and hands its outcome on.
C40_StateFollowsProbe ==
    /\ [](starts = 0 => conn_state = "CONNECTED")
    /\ [][/\ (conn_state' # conn_state) =>
                \E p \in Probers : ppc[p] = "set" /\ ppc'[p] = "callback"
          /\ \A p \in Probers :
                (ppc[p] = "set" /\ ppc'[p] # "set") => conn_state' = pnew[p]
          /\ \A p \in Probers :
                (ppc[p] = "ping" /\ ppc'[p] # "ping") =>
                    /\ ppc'[p] = "set"
                    /\ pnew'[p] \in ConnectionState
          /\ (pings' # pings) => conn_state' = conn_state
         ]_vars

\* a failed probe and then a good one have each changed the state, and a
\* third ping was made
C40_Witness ==
    /\ changes = <<"DISCONNECTED", "CONNECTED">>
    /\ conn_state = "CONNECTED"
    /\ pings = MaxPings

================================================================
